---- MODULE Spec2Model ----
(***************************************************************************)
(* The farhadmarket exchange adapter (src/js/farhadmarket.js): the error   *)
(* classification hook, the order / trade normalizers and the unified      *)
(* trading operations with their endpoint selection.                       *)
(*                                                                         *)
(* Raw JSON objects are functions from the keys that are present to their  *)
(* values ('k' in o  is  k \in DOMAIN o).  An undefined string is the      *)
(* value Undefined; an undefined number or object is None and a defined    *)
(* one is Some(v).                                                         *)
(*                                                                         *)
(* Spec is the adapter under sequences of unified operations.  PureSpec    *)
(* applies the hook and the parsers, which are functions of their          *)
(* arguments and of the adapter's options and exception table, to one      *)
(* call drawn by its initial state (pending).  MarketSpec runs             *)
(* fetchCurrencies and fetchMarkets on one drawn reply of the exchange.    *)
(***************************************************************************)
EXTENDS Integers, Sequences, FiniteSets, TLC

VARIABLES options, marketsLoaded, exceptions, statusRecord, pending, last

vars == <<options, marketsLoaded, exceptions, statusRecord, pending, last>>

Undefined == "undefined"
None == <<>>
Some(v) == <<v>>
IsSome(x) == Len(x) = 1
Val(x) == x[1]
EmptyObject == [k \in {} |-> Undefined]

\* ---------------------------------------------------------------- bounds
MaxBodyLen == 2

\* networks in one response of the currencies endpoint
MaxNetworks == 2

\* entries in one response of the currencies endpoint
MaxCurrencies == 2

\* records in one response of the markets endpoint
MaxMarkets == 2

\* columns of one raw candle
MaxColumns == 8

\* ------------------------------------------------- base client helpers
Has(o, k) == k \in DOMAIN o

\* safeString (o, k, d): the value under k, or d when the key is absent
SafeString(o, k, d) == IF Has(o, k) THEN o[k] ELSE d

\* safeString2 (o, k1, k2, d)
SafeString2(o, k1, k2, d) == IF Has(o, k1) THEN o[k1] ELSE SafeString(o, k2, d)

\* safeValue (o, k, d)
SafeValue(o, k, d) == IF Has(o, k) THEN o[k] ELSE d

\* safeValue2 (o, k1, k2, d)
SafeValue2(o, k1, k2, d) == IF Has(o, k1) THEN o[k1] ELSE SafeValue(o, k2, d)

\* safeNumber (o, k)
SafeNumber(o, k) == IF Has(o, k) THEN Some(o[k]) ELSE None

\* safeNumber2 (o, k1, k2)
SafeNumber2(o, k1, k2) == IF Has(o, k1) THEN Some(o[k1]) ELSE SafeNumber(o, k2)

\* omit (o, keys): a copy of o without the keys
Omit(o, keys) == [k \in (DOMAIN o) \ keys |-> o[k]]

\* extend (a, b): a copy of a overridden by b
Extend(a, b) == [k \in (DOMAIN a) \cup (DOMAIN b) |-> IF k \in DOMAIN b THEN b[k] ELSE a[k]]

\* commonCurrencyCode of the base client on the upper-case ids of the model
CommonCurrencyCode(id) == IF id = "XBT" THEN "BTC" ELSE id

\* safeCurrencyCode (id): undefined stays undefined
SafeCurrencyCode(id) == IF id = Undefined THEN Undefined ELSE CommonCurrencyCode(id)

\* safeCurrency (id)
SafeCurrency(id) == [id |-> id, code |-> SafeCurrencyCode(id)]

\* String.prototype.toLowerCase / toUpperCase on the strings of the model
ToLowerCase(s) ==
    CASE s = "BUY" -> "buy"
      [] s = "SELL" -> "sell"
      [] s = "Buy" -> "buy"
      [] s = "LIMIT" -> "limit"
      [] s = "MARKET" -> "market"
      [] s = "LIMIT_MAKER" -> "limit_maker"
      [] s = "STOP_LOSS" -> "stop_loss"
      [] s = "STOP_MARKET" -> "stop_market"
      [] s = "TRAILING_STOP_MARKET" -> "trailing_stop_market"
      [] OTHER -> s

ToUpperCase(s) ==
    CASE s = "buy" -> "BUY"
      [] s = "sell" -> "SELL"
      [] s = "limit" -> "LIMIT"
      [] s = "market" -> "MARKET"
      [] s = "limit_maker" -> "LIMIT_MAKER"
      [] s = "stop_loss" -> "STOP_LOSS"
      [] s = "stop_market" -> "STOP_MARKET"
      [] s = "trailing_stop_market" -> "TRAILING_STOP_MARKET"
      [] s = "new" -> "NEW"
      [] s = "Filled" -> "FILLED"
      [] OTHER -> s

\* safeStringLower (o, k)
SafeStringLower(o, k) == IF Has(o, k) THEN ToLowerCase(o[k]) ELSE Undefined

\* ------------------------------------------------------- handleErrors
\* The raw body is a sequence of text fragments; body.indexOf (p) >= 0
\* holds when the phrase p is one of them.
BodyContains(body, phrase) == \E i \in 1..Len(body) : body[i] = phrase

\* JSON.parse of a message string: the parsed value, or None when the
\* text is not JSON (the catch branch).  A JSON number parses to a value
\* without properties.
JsonParse(message) ==
    CASE message = "{\"code\":0}" -> Some([code |-> "0"])
      [] message = "{\"code\":-1121,\"msg\":\"Invalid symbol.\"}" -> Some([code |-> "-1121", msg |-> "Invalid symbol."])
      [] message = "{\"msg\":\"Market is closed.\"}" -> Some([msg |-> "Market is closed."])
      [] message = "451" -> Some(EmptyObject)
      [] OTHER -> None

\* throwExactlyMatchedException (exact, string, message): the kind under
\* the key, "none" when the table has no such key
ThrowExactlyMatchedException(exact, string) ==
    IF string \in DOMAIN exact THEN exact[string] ELSE "none"

\* the (possibly re-parsed) response the lookups are made on
ReparsedResponse(response) ==
    LET success == SafeValue(response, "success", TRUE)
        message == SafeString(response, "msg", Undefined)
        parsedMessage == IF message # Undefined THEN JsonParse(message) ELSE None
    IN  IF (~success) /\ message # Undefined /\ IsSome(parsedMessage)
        THEN Val(parsedMessage)
        ELSE response

\* the parsed-response checks without the "-2015" escalation
HandleParsedResponseNoEscalation(response0, exact, opts) ==
    LET success == SafeValue(response0, "success", TRUE)
        response == ReparsedResponse(response0)
        message == SafeString(response, "msg", Undefined)
        byMessage == IF message # Undefined
                     THEN ThrowExactlyMatchedException(exact, message)
                     ELSE "none"
        error == SafeString(response, "code", Undefined)
    IN  IF byMessage # "none" THEN byMessage
        ELSE IF error # Undefined THEN
            IF error = "200" \/ error = "0" THEN "none"
            ELSE IF ThrowExactlyMatchedException(exact, error) # "none"
                 THEN ThrowExactlyMatchedException(exact, error)
            ELSE "ExchangeError"
        ELSE IF ~success THEN "ExchangeError"
        ELSE "none"

\* the parsed-response checks returning on an unmatched code
HandleParsedResponseUnmatchedReturns(response0, exact, opts) ==
    LET success == SafeValue(response0, "success", TRUE)
        response == ReparsedResponse(response0)
        message == SafeString(response, "msg", Undefined)
        byMessage == IF message # Undefined
                     THEN ThrowExactlyMatchedException(exact, message)
                     ELSE "none"
        error == SafeString(response, "code", Undefined)
    IN  IF byMessage # "none" THEN byMessage
        ELSE IF error # Undefined THEN
            IF error = "200" \/ error = "0" THEN "none"
            ELSE IF error = "-2015" /\ SafeValue(opts, "hasAlreadyAuthenticatedSuccessfully", FALSE)
                 THEN "DDoSProtection"
            ELSE ThrowExactlyMatchedException(exact, error)
        ELSE IF ~success THEN "ExchangeError"
        ELSE "none"

\* the parsed-response checks with the success flag tested ahead of the
\* code
HandleParsedResponseSuccessFirst(response0, exact, opts) ==
    LET success == SafeValue(response0, "success", TRUE)
        response == ReparsedResponse(response0)
        message == SafeString(response, "msg", Undefined)
        byMessage == IF message # Undefined
                     THEN ThrowExactlyMatchedException(exact, message)
                     ELSE "none"
        error == SafeString(response, "code", Undefined)
    IN  IF byMessage # "none" THEN byMessage
        ELSE IF ~success THEN "ExchangeError"
        ELSE IF error # Undefined THEN
            IF error = "200" \/ error = "0" THEN "none"
            ELSE IF error = "-2015" /\ SafeValue(opts, "hasAlreadyAuthenticatedSuccessfully", FALSE)
                 THEN "DDoSProtection"
            ELSE IF ThrowExactlyMatchedException(exact, error) # "none"
                 THEN ThrowExactlyMatchedException(exact, error)
            ELSE "ExchangeError"
        ELSE "none"

\* lines 2096-2120: message lookup, code lookup, success flag
HandleParsedResponse(response0, exact, opts) ==
    LET success == SafeValue(response0, "success", TRUE)
        response == ReparsedResponse(response0)
        message == SafeString(response, "msg", Undefined)
        byMessage == IF message # Undefined
                     THEN ThrowExactlyMatchedException(exact, message)
                     ELSE "none"
        error == SafeString(response, "code", Undefined)
    IN  IF byMessage # "none" THEN byMessage
        ELSE IF error # Undefined THEN
            IF error = "200" \/ error = "0" THEN "none"
            ELSE IF error = "-2015" /\ SafeValue(opts, "hasAlreadyAuthenticatedSuccessfully", FALSE)
                 THEN "DDoSProtection"
            ELSE IF ThrowExactlyMatchedException(exact, error) # "none"
                 THEN ThrowExactlyMatchedException(exact, error)
            ELSE "ExchangeError"
        ELSE IF ~success THEN "ExchangeError"
        ELSE "none"

\* the phrase scan without the lot-size phrase
ScanBodyWithoutLotSize(code, body) ==
    IF code >= 400 /\ (BodyContains(body, "Price * QTY is zero or less")
                        \/ BodyContains(body, "PRICE_FILTER"))
    THEN "InvalidOrder"
    ELSE "none"

\* lines 2064-2074: the phrase scan of the raw body
ScanBody(code, body) ==
    IF code >= 400 /\ (BodyContains(body, "Price * QTY is zero or less")
                        \/ BodyContains(body, "LOT_SIZE")
                        \/ BodyContains(body, "PRICE_FILTER"))
    THEN "InvalidOrder"
    ELSE "none"

\* handleErrors with the phrase scan ahead of the 418 / 429 check
HandleErrorsScanFirst(code, body, response, exact, opts) ==
    IF ScanBody(code, body) # "none" THEN ScanBody(code, body)
    ELSE IF code = 418 \/ code = 429 THEN "DDoSProtection"
    ELSE IF ~IsSome(response) THEN "none"
    ELSE HandleParsedResponse(Val(response), exact, opts)

\* handleErrors (code, reason, url, method, headers, body, response, ...):
\* the kind of the exception raised, "none" when it returns
HandleErrors(code, body, response, exact, opts) ==
    IF code = 418 \/ code = 429 THEN "DDoSProtection"
    ELSE IF ScanBody(code, body) # "none" THEN ScanBody(code, body)
    ELSE IF ~IsSome(response) THEN "none"
    ELSE HandleParsedResponse(Val(response), exact, opts)

\* --------------------------------------------------- markets (the cache)
\* The market records loadMarkets caches, by unified symbol.  BTC/USDT is a
\* record as fetchMarkets builds it (no type, no spot/future flags); the
\* others carry the type metadata the trading operations read.
Markets ==
    [s \in {"BTC/USDT", "BNB/USDT", "BTC/USD-PERP", "BTC/USD-0625"} |->
        CASE s = "BTC/USDT" -> [id |-> "BTC_USDT",
                                info |-> [orderTypes |-> {"LIMIT", "MARKET"}]]
          [] s = "BNB/USDT" -> [id |-> "BNBUSDT", type |-> "spot", spot |-> TRUE,
                                info |-> [orderTypes |-> {"LIMIT", "MARKET", "LIMIT_MAKER", "STOP_LOSS"}]]
          [] s = "BTC/USD-PERP" -> [id |-> "BTCUSD_PERP", type |-> "future", future |-> TRUE,
                                    info |-> [orderTypes |-> {"LIMIT", "MARKET", "STOP_LOSS", "STOP_MARKET", "TRAILING_STOP_MARKET"}]]
          [] s = "BTC/USD-0625" -> [id |-> "BTCUSD_0625", type |-> "delivery", delivery |-> TRUE,
                                    info |-> [orderTypes |-> {"LIMIT", "MARKET"}]]]

Symbols == DOMAIN Markets

\* ------------------------------------------------------ parseOrderStatus
statuses ==
    [k \in {"NEW", "PARTIALLY_FILLED", "FILLED", "CANCELED", "PENDING_CANCEL", "REJECTED", "EXPIRED"} |->
        CASE k = "NEW" -> "open"
          [] k = "PARTIALLY_FILLED" -> "open"
          [] k = "FILLED" -> "closed"
          [] k = "CANCELED" -> "canceled"
          [] k = "PENDING_CANCEL" -> "canceling"
          [] k = "REJECTED" -> "rejected"
          [] k = "EXPIRED" -> "expired"]

\* the lookup made on the upper-cased status
ParseOrderStatusIgnoreCase(status) == SafeString(statuses, ToUpperCase(status), status)

ParseOrderStatus(status) == SafeString(statuses, status, status)

\* the status derived from filled-vs-amount when the raw order has none
OrderStatusDerived(order) ==
    IF Has(order, "status") THEN ParseOrderStatus(order["status"])
    ELSE IF SafeNumber(order, "executedQty") = SafeNumber(order, "origQty") THEN "closed"
    ELSE "open"

\* line 919: the status of a parsed order
OrderStatus(order) == ParseOrderStatus(SafeString(order, "status", Undefined))

\* ------------------------------------------------------------ parseOrder
\* safeOrder (order) of the base client: fills remaining from amount and
\* filled and leaves the fields the adapter has set
SafeOrder(order) ==
    [order EXCEPT !.remaining =
        IF IsSome(order.amount) /\ IsSome(order.filled)
        THEN Some(Val(order.amount) - Val(order.filled))
        ELSE None]

ParseOrder(order) ==
    LET status == OrderStatus(order)
        price == SafeNumber(order, "price")
        amount == SafeNumber(order, "origQty")
        filled == SafeNumber(order, "executedQty")
        id == SafeString(order, "orderId", Undefined)
        type0 == SafeStringLower(order, "type")
        type == IF type0 = "limit_maker" THEN "limit" ELSE type0
        side == SafeStringLower(order, "side")
        clientOrderId == SafeString(order, "clientOrderId", Undefined)
        timeInForce == SafeString(order, "timeInForce", Undefined)
        postOnly == (type = "limit_maker") \/ (timeInForce = "GTX")
    IN  SafeOrder([info |-> order,
                   id |-> id,
                   clientOrderId |-> clientOrderId,
                   type |-> type,
                   timeInForce |-> timeInForce,
                   postOnly |-> postOnly,
                   side |-> side,
                   price |-> price,
                   amount |-> amount,
                   filled |-> filled,
                   remaining |-> None,
                   status |-> status])

\* ------------------------------------------------- parseTrade, dust trades
\* sum (a, b) of the base client: the sum of the defined arguments
Sum(a, b) ==
    IF IsSome(a) /\ IsSome(b) THEN Some(Val(a) + Val(b))
    ELSE IF IsSome(a) THEN a
    ELSE b

\* the earned quantity of a dust record without the service charge
DustGrossWithoutFee(trade) ==
    SafeNumber(trade, "transferedAmount")

\* lines 1561, 1567: the service charge added on top of the transferred amount
DustGross(trade) ==
    Sum(SafeNumber(trade, "transferedAmount"), SafeNumber(trade, "serviceChargeAmount"))

\* parseDustTrade (trade); cost / amount is kept as the ratio <<cost, amount>>
ParseDustTrade(trade) ==
    LET orderId == SafeString(trade, "tranId", Undefined)
        tradedCurrency == SafeCurrencyCode(SafeString(trade, "fromAsset", Undefined))
        earnedCurrency == "BNB"
        applicantSymbol == earnedCurrency \o "/" \o tradedCurrency
        tradedCurrencyIsQuote == applicantSymbol \in Symbols
        fee == [currency |-> earnedCurrency, cost |-> SafeNumber(trade, "serviceChargeAmount")]
        gross == DustGross(trade)
        symbol == IF tradedCurrencyIsQuote THEN applicantSymbol
                  ELSE tradedCurrency \o "/" \o earnedCurrency
        amount == IF tradedCurrencyIsQuote THEN gross ELSE SafeNumber(trade, "amount")
        cost == IF tradedCurrencyIsQuote THEN SafeNumber(trade, "amount") ELSE gross
        side == IF tradedCurrencyIsQuote THEN "buy" ELSE "sell"
        price == IF IsSome(cost) /\ IsSome(amount) /\ Val(amount) # 0
                 THEN Some(<<Val(cost), Val(amount)>>)
                 ELSE None
    IN  [info |-> trade,
         symbol |-> symbol,
         order |-> orderId,
         takerOrMaker |-> Undefined,
         side |-> side,
         amount |-> amount,
         price |-> price,
         cost |-> cost,
         fee |-> Some(fee)]

\* the side with the explicit side string probed first
TradeSideStringFirst(trade) ==
    IF Has(trade, "side") THEN SafeStringLower(trade, "side")
    ELSE IF Has(trade, "m") THEN (IF trade["m"] THEN "sell" ELSE "buy")
    ELSE IF Has(trade, "isBuyerMaker") THEN (IF trade["isBuyerMaker"] THEN "sell" ELSE "buy")
    ELSE IF Has(trade, "isBuyer") THEN (IF trade["isBuyer"] THEN "buy" ELSE "sell")
    ELSE Undefined

\* lines 702-714: the side of an ordinary trade
TradeSide(trade) ==
    IF Has(trade, "m") THEN (IF trade["m"] THEN "sell" ELSE "buy")
    ELSE IF Has(trade, "isBuyerMaker") THEN (IF trade["isBuyerMaker"] THEN "sell" ELSE "buy")
    ELSE IF Has(trade, "side") THEN SafeStringLower(trade, "side")
    ELSE IF Has(trade, "isBuyer") THEN (IF trade["isBuyer"] THEN "buy" ELSE "sell")
    ELSE Undefined

\* the cost computed only from a price and an amount that are not zero
TradeCostTruthy(price, amount) ==
    IF IsSome(price) /\ IsSome(amount) /\ Val(price) # 0 /\ Val(amount) # 0
    THEN Some(Val(price) * Val(amount))
    ELSE None

\* lines 731-734: the cost of an ordinary trade
TradeCost(price, amount) ==
    IF IsSome(price) /\ IsSome(amount) THEN Some(Val(price) * Val(amount)) ELSE None

\* the dust marker tested by its value
IsDustTradeTruthy(trade) ==
    Has(trade, "isDustTrade") /\ trade["isDustTrade"]

\* line 612: 'isDustTrade' in trade
IsDustTrade(trade) ==
    Has(trade, "isDustTrade")

ParseTrade(trade) ==
    IF IsDustTrade(trade) THEN ParseDustTrade(trade)
    ELSE
    LET price == SafeNumber2(trade, "p", "price")
        amount == SafeNumber2(trade, "q", "qty")
        orderId == SafeString(trade, "orderId", Undefined)
        side == TradeSide(trade)
        fee == IF Has(trade, "commission")
               THEN Some([cost |-> SafeNumber(trade, "commission"),
                          currency |-> SafeString(trade, "commissionAsset", Undefined)])
               ELSE None
        byIsMaker == IF Has(trade, "isMaker") THEN (IF trade["isMaker"] THEN "maker" ELSE "taker")
                     ELSE Undefined
        takerOrMaker == IF Has(trade, "maker") THEN (IF trade["maker"] THEN "maker" ELSE "taker")
                        ELSE byIsMaker
        cost == TradeCost(price, amount)
    IN  [info |-> trade,
         symbol |-> SafeString(trade, "symbol", Undefined),
         order |-> orderId,
         takerOrMaker |-> takerOrMaker,
         side |-> side,
         amount |-> amount,
         price |-> price,
         cost |-> cost,
         fee |-> fee]

\* ------------------------------------------- fetchCurrencies, fetchMarkets
\* JavaScript truthiness, || and && on boolean-or-undefined values
Truthy(x) == IsSome(x) /\ Val(x) = TRUE

JsOr(a, b) == IF Truthy(a) THEN a ELSE b

JsAnd(a, b) == IF Truthy(a) THEN b ELSE a

\* a < b of JavaScript on numbers: false when either side is undefined
\* the comparison with an unset right operand taken as larger than any
\* number
JsLessUnsetIsLargest(a, b) == IsSome(a) /\ (IsSome(b) => Val(a) < Val(b))

JsLess(a, b) == IsSome(a) /\ IsSome(b) /\ Val(a) < Val(b)

\* the accumulators with the two flags starting false
InitialNetworkStateFlagsFalse ==
    [isWithdrawEnabled |-> Some(FALSE),
     isDepositEnabled |-> Some(FALSE),
     fees |-> EmptyObject,
     fee |-> None,
     primaryNetworkOrder |-> None]

\* lines 126-131: the accumulators before the loop over the networks
InitialNetworkState ==
    [isWithdrawEnabled |-> Some(TRUE),
     isDepositEnabled |-> Some(TRUE),
     fees |-> EmptyObject,
     fee |-> None,
     primaryNetworkOrder |-> None]

\* lines 133-149: one iteration of the loop over the networks
NetworkStep(acc, networkItem) ==
    LET network == SafeString(networkItem, "chain", Undefined)
        withdrawFee == SafeNumber(networkItem, "withdrawStaticCommission")
        depositEnable == SafeNumber(networkItem, "isDepositable")
        withdrawEnable == SafeNumber(networkItem, "isWithdrawable")
        order == SafeNumber(networkItem, "order")
        primaryNetworkOrder == IF JsLess(order, acc.primaryNetworkOrder)
                               THEN order
                               ELSE acc.primaryNetworkOrder
        isDefault == primaryNetworkOrder = order
    IN  [isWithdrawEnabled |-> JsOr(acc.isWithdrawEnabled, withdrawEnable),
         isDepositEnabled |-> JsOr(acc.isDepositEnabled, depositEnable),
         fees |-> Extend(acc.fees, [c \in {network} |-> withdrawFee]),
         fee |-> IF isDefault \/ acc.fee = None THEN withdrawFee ELSE acc.fee,
         primaryNetworkOrder |-> primaryNetworkOrder]

RECURSIVE NetworkLoop(_, _, _)
\* lines 132-150: the loop over networkList from index j
NetworkLoop(acc, networkList, j) ==
    IF j > Len(networkList) THEN acc
    ELSE NetworkLoop(NetworkStep(acc, networkList[j]), networkList, j + 1)

\* lines 121-162: the currency built from one entry of the response
ParseCurrency(entry) ==
    LET id == SafeString(entry, "symbol", Undefined)
        networkList == SafeValue(entry, "networks", <<>>)
        acc == NetworkLoop(InitialNetworkState, networkList, 1)
    IN  [id |-> id,
         name |-> SafeString(entry, "name", Undefined),
         code |-> SafeCurrencyCode(id),
         precision |-> SafeNumber(entry, "smallestUnitScale"),
         info |-> entry,
         active |-> JsAnd(acc.isWithdrawEnabled, acc.isDepositEnabled),
         fee |-> acc.fee,
         fees |-> acc.fees]

\* lines 119-164: the currencies by code; a later entry replaces an
\* earlier one of the same code
ParseCurrencies(response) ==
    LET codes == {SafeCurrencyCode(SafeString(response[i], "symbol", Undefined)) :
                    i \in 1..Len(response)}
        lastOf(c) == CHOOSE i \in 1..Len(response) :
                        /\ SafeCurrencyCode(SafeString(response[i], "symbol", Undefined)) = c
                        /\ \A k \in (i + 1)..Len(response) :
                              SafeCurrencyCode(SafeString(response[k], "symbol", Undefined)) # c
    IN  [c \in codes |-> ParseCurrency(response[lastOf(c)])]

\* the symbol made of the normalized currency codes
MarketSymbolByCode(baseId, quoteId) ==
    SafeCurrencyCode(baseId) \o "/" \o SafeCurrencyCode(quoteId)

\* line 177
MarketSymbol(baseId, quoteId) == baseId \o "/" \o quoteId

\* lines 171-204: the market built from one record of the response
ParseMarket(market) ==
    LET baseId == SafeString(market, "baseCurrencySymbol", Undefined)
        quoteId == SafeString(market, "quoteCurrencySymbol", Undefined)
    IN  [id |-> SafeString(market, "name", Undefined),
         symbol |-> MarketSymbol(baseId, quoteId),
         base |-> SafeCurrency(baseId),
         quote |-> SafeCurrency(quoteId),
         baseId |-> baseId,
         quoteId |-> quoteId,
         active |-> TRUE,
         info |-> market,
         limits |-> [amount |-> [min |-> SafeNumber(market, "minAmount"),
                                 max |-> SafeNumber(market, "maxAmount")],
                     price |-> [min |-> None, max |-> None],
                     cost |-> [min |-> None, max |-> None]]]

\* lines 169-206
ParseMarkets(response) == [i \in 1..Len(response) |-> ParseMarket(response[i])]

\* ------------------------------------------------------ parseTransaction
\* safeString on a numeric field: the decimal string of the number
NumberToString(n) ==
    CASE n = 0 -> "0" [] n = 1 -> "1" [] n = 2 -> "2" [] n = 3 -> "3"
      [] n = 4 -> "4" [] n = 5 -> "5" [] n = 6 -> "6" [] n = 7 -> "7"

\* lines 1664-1678
statusesByType ==
    [deposit |-> [k \in {"0", "1"} |-> IF k = "0" THEN "pending" ELSE "ok"],
     withdrawal |-> [k \in {"0", "1", "2", "3", "4", "5", "6"} |->
                        CASE k \in {"0", "2", "4"} -> "pending"
                          [] k = "1" -> "canceled"
                          [] k \in {"3", "5"} -> "failed"
                          [] k = "6" -> "ok"]]

\* the status looked up in the deposit table whatever the type
ParseTransactionStatusByTypeDepositTable(status, type) ==
    SafeString(statusesByType["deposit"], status, status)

\* parseTransactionStatusByType (status, type)
ParseTransactionStatusByType(status, type) ==
    LET table == SafeValue(statusesByType, type, EmptyObject)
    IN  SafeString(table, status, status)

\* parseTransaction (transaction): the fields type, timestamp, status
ParseTransaction(transaction) ==
    LET insertTime == SafeNumber(transaction, "insertTime")
        applyTime == SafeNumber(transaction, "applyTime")
        explicit == SafeString(transaction, "type", Undefined)
        deposit == explicit = Undefined /\ IsSome(insertTime) /\ ~IsSome(applyTime)
        withdrawal == explicit = Undefined /\ ~IsSome(insertTime) /\ IsSome(applyTime)
        type == IF deposit THEN "deposit" ELSE IF withdrawal THEN "withdrawal" ELSE explicit
        timestamp == IF deposit THEN insertTime ELSE IF withdrawal THEN applyTime ELSE None
        rawStatus == IF Has(transaction, "status")
                     THEN NumberToString(transaction["status"])
                     ELSE Undefined
    IN  [info |-> transaction,
         timestamp |-> timestamp,
         type |-> type,
         amount |-> SafeNumber(transaction, "amount"),
         status |-> ParseTransactionStatusByType(rawStatus, type),
         updated |-> SafeNumber(transaction, "successTime")]

\* ------------------------------------------------- parseTicker, parseOHLCV
\* safeNumber / safeInteger (array, k) on the k-th position of a raw array
\* (positions count from 0)
SafeNumberAt(array, k) == IF k < Len(array) THEN Some(array[k + 1]) ELSE None

\* the candle made of every raw column
ParseOHLCVAllColumns(ohlcv) == [i \in 1..Len(ohlcv) |-> SafeNumberAt(ohlcv, i - 1)]

\* parseOHLCV (ohlcv): lines 545-570
ParseOHLCV(ohlcv) ==
    <<SafeNumberAt(ohlcv, 0),
      SafeNumberAt(ohlcv, 1),
      SafeNumberAt(ohlcv, 2),
      SafeNumberAt(ohlcv, 3),
      SafeNumberAt(ohlcv, 4),
      SafeNumberAt(ohlcv, 5)>>

\* the ticker with change and percentage computed from open and last
ParseTickerRecomputed(ticker) ==
    LET lastPrice == SafeNumber(ticker, "lastPrice")
        open == SafeNumber(ticker, "openPrice")
        change == IF IsSome(lastPrice) /\ IsSome(open) THEN Some(Val(lastPrice) - Val(open)) ELSE None
    IN  [timestamp |-> SafeNumber(ticker, "closeTime"),
         open |-> open,
         close |-> lastPrice,
         last |-> lastPrice,
         previousClose |-> SafeNumber(ticker, "prevClosePrice"),
         change |-> change,
         percentage |-> IF IsSome(change) /\ Val(open) # 0
                        THEN Some((Val(change) * 100) \div Val(open))
                        ELSE None,
         average |-> None,
         info |-> ticker]

\* parseTicker (ticker): lines 449-474, the price fields
ParseTicker(ticker) ==
    LET lastPrice == SafeNumber(ticker, "lastPrice")
    IN  [timestamp |-> SafeNumber(ticker, "closeTime"),
         open |-> SafeNumber(ticker, "openPrice"),
         close |-> lastPrice,
         last |-> lastPrice,
         previousClose |-> SafeNumber(ticker, "prevClosePrice"),
         change |-> SafeNumber(ticker, "priceChange"),
         percentage |-> SafeNumber(ticker, "priceChangePercent"),
         average |-> None,
         info |-> ticker]

\* ------------------------------------------------------------------ sign
\* the keys of the request parameters of the model, in the order they are
\* encoded
ParamKeys == <<"orderId", "symbol">>

RECURSIVE UrlEncodeFrom(_, _)
\* urlencode (params) of the base client from the i-th key on: the pairs
\* key=value joined by &
UrlEncodeFrom(params, i) ==
    IF i > Len(ParamKeys) THEN ""
    ELSE LET k == ParamKeys[i]
             rest == UrlEncodeFrom(params, i + 1)
         IN  IF ~Has(params, k) THEN rest
             ELSE IF rest = "" THEN k \o "=" \o params[k]
             ELSE k \o "=" \o params[k] \o "&" \o rest

UrlEncode(params) == UrlEncodeFrom(params, 1)

\* checkRequiredCredentials () of the base client: the API key and the
\* secret are both required
CheckRequiredCredentials(apiKey, secret) ==
    IF apiKey = Undefined \/ secret = Undefined THEN "AuthenticationError" ELSE "none"

\* this.urls['api'][api]: urls.api is one string (line 64), and a string
\* indexed by the name of an API class is undefined
UrlOf(api) == Undefined

\* sign without the credential check
SignUnchecked(api, method, params, headers, body, apiKey, secret) ==
    [error |-> "none",
     result |-> Some([url |-> UrlOf(api),
                      method |-> method,
                      body |-> IF api # "public" THEN Some(UrlEncode(params)) ELSE body,
                      headers |-> IF api # "public"
                                  THEN Some([k \in {"X-API-KEY", "X-API-SECRET", "Content-Type"} |->
                                               CASE k = "X-API-KEY" -> apiKey
                                                 [] k = "X-API-SECRET" -> secret
                                                 [] OTHER -> "application/x-www-form-urlencoded"])
                                  ELSE headers])]

\* sign (path, api, method, params, headers, body) on an adapter with the
\* credentials apiKey and secret: the exception raised and the value
\* returned
Sign(api, method, params, headers, body, apiKey, secret) ==
    IF api # "public" /\ CheckRequiredCredentials(apiKey, secret) # "none"
    THEN [error |-> CheckRequiredCredentials(apiKey, secret), result |-> None]
    ELSE [error |-> "none",
          result |-> Some([url |-> UrlOf(api),
                           method |-> method,
                           body |-> IF api # "public" THEN Some(UrlEncode(params)) ELSE body,
                           headers |-> IF api # "public"
                                       THEN Some([k \in {"X-API-KEY", "X-API-SECRET", "Content-Type"} |->
                                                    CASE k = "X-API-KEY" -> apiKey
                                                      [] k = "X-API-SECRET" -> secret
                                                      [] OTHER -> "application/x-www-form-urlencoded"])
                                       ELSE headers])]

\* ------------------------------------------------------------ transport
\* A reply of the exchange: HTTP status, raw body, parsed JSON (None when
\* the body is not JSON).
\* the API class of an endpoint method, from its name
ApiOf(method) ==
    CASE method \in {"privateGetOrder", "privateGetAllOrders", "privateGetMyTrades",
                     "privateDeleteOrder", "privateDeleteOpenOrders",
                     "privatePostOrder", "privatePostOrderTest"} -> "private"
      [] method \in {"fapiPrivateGetOrder", "fapiPrivateGetAllOrders", "fapiPrivateGetUserTrades",
                     "fapiPrivateDeleteOrder", "fapiPrivateDeleteAllOpenOrders",
                     "fapiPrivatePostOrder", "fapiPrivatePostOrderTest"} -> "fapiPrivate"
      [] method \in {"dapiPrivateGetOrder", "dapiPrivateGetAllOrders", "dapiPrivateGetUserTrades",
                     "dapiPrivateDeleteOrder", "dapiPrivateDeleteAllOpenOrders",
                     "dapiPrivatePostOrder", "dapiPrivatePostOrderTest"} -> "dapiPrivate"
      [] method \in {"sapiGetMarginOrder", "sapiGetMarginAllOrders", "sapiGetMarginMyTrades",
                     "sapiDeleteMarginOrder", "sapiDeleteMarginOpenOrders",
                     "sapiPostMarginOrder", "sapiPostMarginOrderTest"} -> "sapi"
      [] method \in {"wapiGetSystemStatus", "wapiGetUserAssetDribbletLog"} -> "wapi"
      [] OTHER -> Undefined

\* handleHttpStatusCode of the base client, called when handleErrors returns
HandleHttpStatusCode(code) == IF code >= 400 THEN "ExchangeNotAvailable" ELSE "none"

\* fetch2 of the base client: one HTTP round trip, then handleErrors, then
\* the default handler; the kind of the exception raised or "none"
Fetch2(reply, exact, opts) ==
    LET e == HandleErrors(reply.code, reply.body, reply.response, exact, opts)
    IN  IF e # "none" THEN e ELSE HandleHttpStatusCode(reply.code)

\* the flag set after a returned request of any API class
MarkAuthenticatedAnyApi(api, opts) ==
    Extend(opts, [hasAlreadyAuthenticatedSuccessfully |-> TRUE])

\* lines 2126-2128: the flag set after a returned request of the classes
\* 'private' and 'wapi'
MarkAuthenticated(api, opts) ==
    IF api = "private" \/ api = "wapi"
    THEN Extend(opts, [hasAlreadyAuthenticatedSuccessfully |-> TRUE])
    ELSE opts

\* request () calling fetch2 a second time when the first call raised
RequestRetrying(api, reply, exact, opts) ==
    LET e == Fetch2(reply, exact, opts)
    IN  [error |-> e,
         attempts |-> IF e = "none" THEN 1 ELSE 2,
         options |-> IF e = "none" THEN MarkAuthenticated(api, opts) ELSE opts]

\* request (path, api, ...): fetch2 called once, then the authenticated
\* flag; attempts is the number of calls of fetch2
Request(api, reply, exact, opts) ==
    LET e == Fetch2(reply, exact, opts)
    IN  [error |-> e,
         attempts |-> 1,
         options |-> IF e = "none" THEN MarkAuthenticated(api, opts) ELSE opts]

\* the invocations of an endpoint method that sent n requests
Invocations(method, n) == [i \in 1..n |-> method]

\* loadMarkets of the base client: its invocation, then the requests it
\* issues (none once the cache is populated)
LoadMarketsCalls(loaded) ==
    <<"loadMarkets">> \o (IF loaded THEN <<>> ELSE <<"publicGetCurrencies", "publicGetMarkets">>)

\* the raw object of a reply (an empty object when the body was not JSON)
ResponseObject(reply) == IF IsSome(reply.response) THEN Val(reply.response) ELSE EmptyObject

\* ------------------------------------------------- endpoint selection
\* the type of fetchOrder with the market's type ahead of the options
FetchOrderTypeMarketFirst(opts, market, params) ==
    LET defaultType == SafeString(market, "type", SafeString2(opts, "fetchOrder", "defaultType", Undefined))
    IN  SafeString(params, "type", defaultType)

\* lines 1129-1138
FetchOrderType(opts, market, params) ==
    LET defaultType == SafeString2(opts, "fetchOrder", "defaultType", SafeString(market, "type", Undefined))
    IN  SafeString(params, "type", defaultType)

FetchOrderMethod(type) ==
    IF type = "future" THEN "fapiPrivateGetOrder"
    ELSE IF type = "delivery" THEN "dapiPrivateGetOrder"
    ELSE IF type = "margin" THEN "sapiGetMarginOrder"
    ELSE "privateGetOrder"

\* lines 1159-1168
FetchOrdersType(opts, market, params) ==
    LET defaultType == SafeString2(opts, "fetchOrders", "defaultType", SafeString(market, "type", Undefined))
    IN  SafeString(params, "type", defaultType)

FetchOrdersMethod(type) ==
    IF type = "future" THEN "fapiPrivateGetAllOrders"
    ELSE IF type = "delivery" THEN "dapiPrivateGetAllOrders"
    ELSE IF type = "margin" THEN "sapiGetMarginAllOrders"
    ELSE "privateGetAllOrders"

\* lines 1272-1293 (cancelOrder reads the 'fetchOpenOrders' option)
CancelOrderType(opts, market, params) ==
    LET defaultType == SafeString2(opts, "fetchOpenOrders", "defaultType", SafeString(market, "type", Undefined))
    IN  SafeString(params, "type", defaultType)

CancelOrderMethod(type) ==
    IF type = "future" THEN "fapiPrivateDeleteOrder"
    ELSE IF type = "delivery" THEN "dapiPrivateDeleteOrder"
    ELSE IF type = "margin" THEN "sapiDeleteMarginOrder"
    ELSE "privateDeleteOrder"

\* lines 1308-1318
CancelAllOrdersType(opts, params) ==
    LET defaultType == SafeString2(opts, "cancelAllOrders", "defaultType", "spot")
    IN  SafeString(params, "type", defaultType)

CancelAllOrdersMethod(type) ==
    IF type = "margin" THEN "sapiDeleteMarginOpenOrders"
    ELSE IF type = "future" THEN "fapiPrivateDeleteAllOpenOrders"
    ELSE IF type = "delivery" THEN "dapiPrivateDeleteAllOpenOrders"
    ELSE "privateDeleteOpenOrders"

\* lines 1424-1436
FetchMyTradesType(opts, market, params) ==
    LET defaultType == SafeString2(opts, "fetchMyTrades", "defaultType", SafeString(market, "type", Undefined))
    IN  SafeString(params, "type", defaultType)

FetchMyTradesMethod(type) ==
    IF type = "spot" THEN "privateGetMyTrades"
    ELSE IF type = "margin" THEN "sapiGetMarginMyTrades"
    ELSE IF type = "future" THEN "fapiPrivateGetUserTrades"
    ELSE IF type = "delivery" THEN "dapiPrivateGetUserTrades"
    ELSE Undefined

\* lines 975-994
CreateOrderType(opts, market, params) ==
    LET defaultType == SafeString2(opts, "createOrder", "defaultType", SafeString(market, "type", Undefined))
    IN  SafeString(params, "type", defaultType)

CreateOrderMethod(orderType, market, params) ==
    LET method == IF orderType = "future" THEN "fapiPrivatePostOrder"
                  ELSE IF orderType = "delivery" THEN "dapiPrivatePostOrder"
                  ELSE IF orderType = "margin" THEN "sapiPostMarginOrder"
                  ELSE "privatePostOrder"
    IN  IF SafeValue(market, "spot", FALSE) /\ SafeValue(params, "test", FALSE)
        THEN method \o "Test"
        ELSE method

\* --------------------------------------------------- unified operations
\* The record kept of the last call: its arguments, what it invoked while
\* it ran (loadMarkets, its requests, the endpoint method; in order), the
\* resolved type, the endpoint method, the request sent, the exception
\* raised ("none" when it returned) and the value returned.
Call(op, symbol, params) ==
    [op |-> op, symbol |-> symbol, params |-> params, calls |-> <<>>,
     type |-> Undefined, method |-> Undefined, request |-> None,
     error |-> "none", result |-> None]

\* the request with type and clientOrderId of the params forwarded
FetchOrderRequestForwardingAll(id, market, params) ==
    LET request == [symbol |-> market.id]
        clientOrderId == SafeValue2(params, "origClientOrderId", "clientOrderId", Undefined)
        identified == IF clientOrderId # Undefined
                      THEN Extend(request, [origClientOrderId |-> clientOrderId])
                      ELSE Extend(request, [orderId |-> id])
    IN  Extend(identified, Omit(params, {"origClientOrderId"}))

\* lines 1139-1148: the request of fetchOrder
FetchOrderRequest(id, market, params) ==
    LET request == [symbol |-> market.id]
        clientOrderId == SafeValue2(params, "origClientOrderId", "clientOrderId", Undefined)
        identified == IF clientOrderId # Undefined
                      THEN Extend(request, [origClientOrderId |-> clientOrderId])
                      ELSE Extend(request, [orderId |-> id])
        query == Omit(params, {"type", "clientOrderId", "origClientOrderId"})
    IN  Extend(identified, query)

\* lines 1127-1150
FetchOrderBody(id, symbol, params, reply) ==
    LET market == Markets[symbol]
        type == FetchOrderType(options, market, params)
        method == FetchOrderMethod(type)
        out == Request(ApiOf(method), reply, exceptions, options)
    IN  /\ marketsLoaded' = TRUE
        /\ options' = out.options
        /\ last' = [Call("fetchOrder", symbol, params) EXCEPT
                        !.calls = LoadMarketsCalls(marketsLoaded) \o Invocations(method, out.attempts),
                        !.type = type,
                        !.method = method,
                        !.request = Some(FetchOrderRequest(id, market, params)),
                        !.error = out.error,
                        !.result = IF out.error = "none"
                                   THEN Some(ParseOrder(ResponseObject(reply)))
                                   ELSE None]
        /\ UNCHANGED <<exceptions, statusRecord, pending>>

\* fetchOrder with the symbol checked after loadMarkets
FetchOrderLoadsFirst(id, symbol, params, reply) ==
    IF symbol = Undefined
    THEN /\ last' = [Call("fetchOrder", symbol, params) EXCEPT
                         !.calls = LoadMarketsCalls(marketsLoaded),
                         !.error = "ArgumentsRequired"]
         /\ marketsLoaded' = TRUE
         /\ UNCHANGED <<options, exceptions, statusRecord, pending>>
    ELSE FetchOrderBody(id, symbol, params, reply)

\* fetchOrder (id, symbol, params)
FetchOrder(id, symbol, params, reply) ==
    IF symbol = Undefined
    THEN /\ last' = [Call("fetchOrder", symbol, params) EXCEPT !.error = "ArgumentsRequired"]
         /\ UNCHANGED <<options, marketsLoaded, exceptions, statusRecord, pending>>
    ELSE FetchOrderBody(id, symbol, params, reply)

\* lines 1169-1178: the request of fetchOrders
FetchOrdersRequest(market, since, limit, params) ==
    LET request == [symbol |-> market.id]
        withSince == IF IsSome(since) THEN Extend(request, [startTime |-> Val(since)]) ELSE request
        withLimit == IF IsSome(limit) THEN Extend(withSince, [limit |-> Val(limit)]) ELSE withSince
    IN  Extend(withLimit, Omit(params, {"type"}))

\* fetchOrders (symbol, since, limit, params); the reply carries one row
FetchOrders(symbol, since, limit, params, reply) ==
    IF symbol = Undefined
    THEN /\ last' = [Call("fetchOrders", symbol, params) EXCEPT !.error = "ArgumentsRequired"]
         /\ UNCHANGED <<options, marketsLoaded, exceptions, statusRecord, pending>>
    ELSE
    LET market == Markets[symbol]
        type == FetchOrdersType(options, market, params)
        method == FetchOrdersMethod(type)
        out == Request(ApiOf(method), reply, exceptions, options)
    IN  /\ marketsLoaded' = TRUE
        /\ options' = out.options
        /\ last' = [Call("fetchOrders", symbol, params) EXCEPT
                        !.calls = LoadMarketsCalls(marketsLoaded) \o Invocations(method, out.attempts),
                        !.type = type,
                        !.method = method,
                        !.request = Some(FetchOrdersRequest(market, since, limit, params)),
                        !.error = out.error,
                        !.result = IF out.error = "none"
                                   THEN Some(<<ParseOrder(ResponseObject(reply))>>)
                                   ELSE None]
        /\ UNCHANGED <<exceptions, statusRecord, pending>>

\* lines 1275-1294: the request of cancelOrder
CancelOrderRequest(id, market, params) ==
    LET origClientOrderId == SafeValue2(params, "origClientOrderId", "clientOrderId", Undefined)
        request == [symbol |-> market.id]
        identified == IF origClientOrderId = Undefined
                      THEN Extend(request, [orderId |-> id])
                      ELSE Extend(request, [origClientOrderId |-> origClientOrderId])
        query == Omit(params, {"type", "origClientOrderId", "clientOrderId"})
    IN  Extend(identified, query)

\* cancelOrder (id, symbol, params)
CancelOrder(id, symbol, params, reply) ==
    IF symbol = Undefined
    THEN /\ last' = [Call("cancelOrder", symbol, params) EXCEPT !.error = "ArgumentsRequired"]
         /\ UNCHANGED <<options, marketsLoaded, exceptions, statusRecord, pending>>
    ELSE
    LET market == Markets[symbol]
        type == CancelOrderType(options, market, params)
        method == CancelOrderMethod(type)
        out == Request(ApiOf(method), reply, exceptions, options)
    IN  /\ marketsLoaded' = TRUE
        /\ options' = out.options
        /\ last' = [Call("cancelOrder", symbol, params) EXCEPT
                        !.calls = LoadMarketsCalls(marketsLoaded) \o Invocations(method, out.attempts),
                        !.type = type,
                        !.method = method,
                        !.request = Some(CancelOrderRequest(id, market, params)),
                        !.error = out.error,
                        !.result = IF out.error = "none"
                                   THEN Some(ParseOrder(ResponseObject(reply)))
                                   ELSE None]
        /\ UNCHANGED <<exceptions, statusRecord, pending>>

\* cancelAllOrders (symbol, params); a reply that is not an array is
\* returned as it is
CancelAllOrders(symbol, params, reply) ==
    IF symbol = Undefined
    THEN /\ last' = [Call("cancelAllOrders", symbol, params) EXCEPT !.error = "ArgumentsRequired"]
         /\ UNCHANGED <<options, marketsLoaded, exceptions, statusRecord, pending>>
    ELSE
    LET market == Markets[symbol]
        request == [symbol |-> market.id]
        type == CancelAllOrdersType(options, params)
        method == CancelAllOrdersMethod(type)
        out == Request(ApiOf(method), reply, exceptions, options)
    IN  /\ marketsLoaded' = TRUE
        /\ options' = out.options
        /\ last' = [Call("cancelAllOrders", symbol, params) EXCEPT
                        !.calls = LoadMarketsCalls(marketsLoaded) \o Invocations(method, out.attempts),
                        !.type = type,
                        !.method = method,
                        !.request = Some(Extend(request, Omit(params, {"type"}))),
                        !.error = out.error,
                        !.result = IF out.error = "none" THEN reply.response ELSE None]
        /\ UNCHANGED <<exceptions, statusRecord, pending>>

\* lines 1437-1446: the request of fetchMyTrades
FetchMyTradesRequest(market, since, limit, params) ==
    LET request == [symbol |-> market.id]
        withSince == IF IsSome(since) THEN Extend(request, [startTime |-> Val(since)]) ELSE request
        withLimit == IF IsSome(limit) THEN Extend(withSince, [limit |-> Val(limit)]) ELSE withSince
    IN  Extend(withLimit, Omit(params, {"type"}))

\* fetchMyTrades (symbol, since, limit, params); calling this[undefined]
\* raises a TypeError and no request is sent
FetchMyTrades(symbol, since, limit, params, reply) ==
    IF symbol = Undefined
    THEN /\ last' = [Call("fetchMyTrades", symbol, params) EXCEPT !.error = "ArgumentsRequired"]
         /\ UNCHANGED <<options, marketsLoaded, exceptions, statusRecord, pending>>
    ELSE
    LET market == Markets[symbol]
        type == FetchMyTradesType(options, market, params)
        method == FetchMyTradesMethod(type)
        out == IF method = Undefined
               THEN [error |-> "TypeError", attempts |-> 0, options |-> options]
               ELSE Request(ApiOf(method), reply, exceptions, options)
    IN  /\ marketsLoaded' = TRUE
        /\ options' = out.options
        /\ last' = [Call("fetchMyTrades", symbol, params) EXCEPT
                        !.calls = LoadMarketsCalls(marketsLoaded)
                                  \o (IF method = Undefined THEN <<>>
                                      ELSE Invocations(method, out.attempts)),
                        !.type = type,
                        !.method = method,
                        !.request = IF method = Undefined THEN None
                                    ELSE Some(FetchMyTradesRequest(market, since, limit, params)),
                        !.error = out.error,
                        !.result = IF out.error = "none"
                                   THEN Some(<<ParseTrade(ResponseObject(reply))>>)
                                   ELSE None]
        /\ UNCHANGED <<exceptions, statusRecord, pending>>

\* this.status (the variable statusRecord) before any fetchStatus
InitialStatus == [status |-> "ok", updated |-> None]

\* fetchStatus (params): lines 477-488; now is this.milliseconds ()
FetchStatus(params, reply, now) ==
    LET method == "wapiGetSystemStatus"
        out == Request(ApiOf(method), reply, exceptions, options)
        raw == IF Has(ResponseObject(reply), "status")
               THEN NumberToString(ResponseObject(reply)["status"])
               ELSE Undefined
        written == IF out.error = "none" /\ raw # Undefined
                   THEN Extend(statusRecord, [status |-> IF raw = "0" THEN "ok" ELSE "maintenance",
                                              updated |-> Some(now)])
                   ELSE statusRecord
    IN  /\ options' = out.options
        /\ statusRecord' = written
        /\ last' = [Call("fetchStatus", Undefined, params) EXCEPT
                        !.calls = Invocations(method, out.attempts),
                        !.method = method,
                        !.request = Some(params),
                        !.error = out.error,
                        !.result = IF out.error = "none" THEN Some(written) ELSE None]
        /\ UNCHANGED <<marketsLoaded, exceptions, pending>>

\* lines 1513-1514: the rows of a dust log response
DustRows(response) == SafeValue(SafeValue(response, "results", EmptyObject), "rows", <<>>)

\* the rows left as they were received
MarkDustRowsOnCopy(rows) == rows

\* lines 1516-1522: the rows after the loop, every log of every row
\* carrying isDustTrade = true
MarkDustRows(rows) ==
    [i \in 1..Len(rows) |->
        [rows[i] EXCEPT !.logs = [j \in 1..Len(@) |-> Extend(@[j], [isDustTrade |-> TRUE])]]]

RECURSIVE DustData(_, _)
\* lines 1515-1522: data, the marked logs of the rows from row i on
DustData(rows, i) ==
    IF i > Len(rows) THEN <<>>
    ELSE [j \in 1..Len(rows[i].logs) |-> Extend(rows[i].logs[j], [isDustTrade |-> TRUE])]
         \o DustData(rows, i + 1)

\* the response object once fetchMyDustTrades has run on it
DustResponseAfter(response) ==
    IF Has(response, "results") /\ Has(response["results"], "rows")
    THEN [response EXCEPT !.results.rows = MarkDustRows(@)]
    ELSE response

\* fetchMyDustTrades (symbol, since, limit, params): lines 1491-1525, for
\* since and limit undefined (the two filters keep every trade); the
\* record of the call also holds the response as received and as it is
\* after the call
FetchMyDustTrades(symbol, params, reply) ==
    LET method == "wapiGetUserAssetDribbletLog"
        out == Request(ApiOf(method), reply, exceptions, options)
        response == ResponseObject(reply)
        data == DustData(DustRows(response), 1)
        call == [Call("fetchMyDustTrades", symbol, params) EXCEPT
                    !.calls = LoadMarketsCalls(marketsLoaded) \o Invocations(method, out.attempts),
                    !.method = method,
                    !.request = Some(params),
                    !.error = out.error,
                    !.result = IF out.error = "none"
                               THEN Some([i \in 1..Len(data) |-> ParseTrade(data[i])])
                               ELSE None]
    IN  /\ marketsLoaded' = TRUE
        /\ options' = out.options
        /\ last' = Extend(call, [response |-> response,
                                 responseAfter |-> IF out.error = "none"
                                                   THEN DustResponseAfter(response)
                                                   ELSE response])
        /\ UNCHANGED <<exceptions, statusRecord, pending>>

\* lines 1023-1097: which fields the order type requires
PriceIsRequired(uppercaseType, market) ==
    \/ uppercaseType \in {"LIMIT", "STOP_LOSS_LIMIT", "TAKE_PROFIT_LIMIT", "LIMIT_MAKER", "STOP"}
    \/ /\ uppercaseType \in {"STOP_LOSS", "TAKE_PROFIT"}
       /\ (SafeValue(market, "future", FALSE) \/ SafeValue(market, "delivery", FALSE))

StopPriceIsRequired(uppercaseType) ==
    uppercaseType \in {"STOP_LOSS", "TAKE_PROFIT", "STOP_LOSS_LIMIT", "TAKE_PROFIT_LIMIT",
                       "STOP", "STOP_MARKET", "TAKE_PROFIT_MARKET"}

TimeInForceIsRequired(uppercaseType) ==
    uppercaseType \in {"LIMIT", "STOP_LOSS_LIMIT", "TAKE_PROFIT_LIMIT"}

QuantityIsRequired(uppercaseType, opts, price, params) ==
    IF uppercaseType = "MARKET"
    THEN ~SafeValue(opts, "quoteOrderQty", FALSE)
         \/ (~Has(params, "quoteOrderQty") /\ ~IsSome(price))
    ELSE IF uppercaseType \in {"STOP_MARKET", "TAKE_PROFIT_MARKET"}
    THEN ~Has(params, "closePosition")
    ELSE uppercaseType \in {"LIMIT", "STOP_LOSS", "TAKE_PROFIT", "STOP_LOSS_LIMIT",
                            "TAKE_PROFIT_LIMIT", "LIMIT_MAKER", "STOP", "TRAILING_STOP_MARKET"}

\* lines 995-999, 1091-1117: the InvalidOrder checks, "none" when all pass
CreateOrderCheck(uppercaseType, market, price, params) ==
    IF uppercaseType \notin market.info.orderTypes THEN "InvalidOrder"
    ELSE IF uppercaseType = "TRAILING_STOP_MARKET" /\ ~Has(params, "callbackRate") THEN "InvalidOrder"
    ELSE IF PriceIsRequired(uppercaseType, market) /\ ~IsSome(price) THEN "InvalidOrder"
    ELSE IF StopPriceIsRequired(uppercaseType) /\ ~Has(params, "stopPrice") THEN "InvalidOrder"
    ELSE "none"

\* lines 1000-1119: the request of createOrder (amounts and prices as given)
CreateOrderRequest(opts, market, type, side, amount, price, params0) ==
    LET clientOrderId == SafeString2(params0, "newClientOrderId", "clientOrderId", Undefined)
        params1 == Omit(params0, {"type", "newClientOrderId", "clientOrderId"})
        params2 == IF SafeValue(market, "spot", FALSE) THEN Omit(params1, {"test"}) ELSE params1
        uppercaseType == ToUpperCase(type)
        quoteQty == uppercaseType = "MARKET" /\ SafeValue(opts, "quoteOrderQty", FALSE)
        request == [symbol |-> market.id, type |-> uppercaseType, side |-> ToUpperCase(side),
                    newOrderRespType |-> "RESULT"]
        r1 == IF clientOrderId # Undefined
              THEN Extend(request, [newClientOrderId |-> clientOrderId]) ELSE request
        r2 == IF quoteQty /\ Has(params2, "quoteOrderQty")
              THEN Extend(r1, [quoteOrderQty |-> params2["quoteOrderQty"]])
              ELSE IF quoteQty /\ IsSome(price)
              THEN Extend(r1, [quoteOrderQty |-> amount * Val(price)])
              ELSE r1
        params3 == IF quoteQty THEN Omit(params2, {"quoteOrderQty"}) ELSE params2
        r3 == IF QuantityIsRequired(uppercaseType, opts, price, params2)
              THEN Extend(r2, [quantity |-> amount]) ELSE r2
        r4 == IF PriceIsRequired(uppercaseType, market)
              THEN Extend(r3, [price |-> Val(price)]) ELSE r3
        r5 == IF TimeInForceIsRequired(uppercaseType)
              THEN Extend(r4, [timeInForce |-> SafeString(opts, "defaultTimeInForce", Undefined)])
              ELSE r4
        r6 == IF StopPriceIsRequired(uppercaseType)
              THEN Extend(r5, [stopPrice |-> params3["stopPrice"]]) ELSE r5
        params4 == IF StopPriceIsRequired(uppercaseType) THEN Omit(params3, {"stopPrice"}) ELSE params3
    IN  Extend(r6, params4)

\* createOrder with the request sent ahead of the InvalidOrder checks
CreateOrderSendsFirst(symbol, type, side, amount, price, params, reply) ==
    LET market == Markets[symbol]
        orderType == CreateOrderType(options, market, params)
        method == CreateOrderMethod(orderType, market, params)
        check == CreateOrderCheck(ToUpperCase(type), market, price, params)
        out == Request(ApiOf(method), reply, exceptions, options)
        error == IF out.error # "none" THEN out.error ELSE check
    IN  /\ marketsLoaded' = TRUE
        /\ options' = out.options
        /\ last' = [Call("createOrder", symbol, params) EXCEPT
                        !.calls = LoadMarketsCalls(marketsLoaded) \o Invocations(method, out.attempts),
                        !.type = orderType,
                        !.method = method,
                        !.error = error,
                        !.result = IF error = "none"
                                   THEN Some(ParseOrder(ResponseObject(reply)))
                                   ELSE None]
        /\ UNCHANGED <<exceptions, statusRecord, pending>>

\* createOrder (symbol, type, side, amount, price, params)
CreateOrder(symbol, type, side, amount, price, params, reply) ==
    LET market == Markets[symbol]
        orderType == CreateOrderType(options, market, params)
        method == CreateOrderMethod(orderType, market, params)
        check == CreateOrderCheck(ToUpperCase(type), market, price, params)
        out == IF check # "none"
               THEN [error |-> check, attempts |-> 0, options |-> options]
               ELSE Request(ApiOf(method), reply, exceptions, options)
    IN  /\ marketsLoaded' = TRUE
        /\ options' = out.options
        /\ last' = [Call("createOrder", symbol, params) EXCEPT
                        !.calls = LoadMarketsCalls(marketsLoaded)
                                  \o (IF check # "none" THEN <<>>
                                      ELSE Invocations(method, out.attempts)),
                        !.type = orderType,
                        !.method = method,
                        !.request = IF check # "none" THEN None
                                    ELSE Some(CreateOrderRequest(options, market, type, side, amount, price, params)),
                        !.error = out.error,
                        !.result = IF out.error = "none"
                                   THEN Some(ParseOrder(ResponseObject(reply)))
                                   ELSE None]
        /\ UNCHANGED <<exceptions, statusRecord, pending>>

\* ------------------------------------------- hooks and parsers, called
NoCall == [op |-> "none"]

\* handleErrors called by the transport with a reply
HandleErrorsCall ==
    /\ pending.op = "handleErrors"
    /\ last' = [op |-> "handleErrors", code |-> pending.code, body |-> pending.body,
                response |-> pending.response,
                authenticated |-> SafeValue(options, "hasAlreadyAuthenticatedSuccessfully", FALSE),
                error |-> HandleErrors(pending.code, pending.body, pending.response, exceptions, options)]
    /\ pending' = NoCall
    /\ UNCHANGED <<options, marketsLoaded, exceptions, statusRecord>>

ParseOrderStatusCall ==
    /\ pending.op = "parseOrderStatus"
    /\ last' = [op |-> "parseOrderStatus", status |-> pending.status,
                result |-> ParseOrderStatus(pending.status)]
    /\ pending' = NoCall
    /\ UNCHANGED <<options, marketsLoaded, exceptions, statusRecord>>

ParseOrderCall ==
    /\ pending.op = "parseOrder"
    /\ last' = [op |-> "parseOrder", order |-> pending.order, result |-> ParseOrder(pending.order)]
    /\ pending' = NoCall
    /\ UNCHANGED <<options, marketsLoaded, exceptions, statusRecord>>

\* parseTrade reads this.markets: it is called once the markets are loaded
ParseTradeCall ==
    /\ pending.op = "parseTrade"
    /\ marketsLoaded
    /\ last' = [op |-> "parseTrade", trade |-> pending.trade, result |-> ParseTrade(pending.trade)]
    /\ pending' = NoCall
    /\ UNCHANGED <<options, marketsLoaded, exceptions, statusRecord>>

ParseTransactionCall ==
    /\ pending.op = "parseTransaction"
    /\ last' = [op |-> "parseTransaction", transaction |-> pending.transaction,
                result |-> ParseTransaction(pending.transaction)]
    /\ pending' = NoCall
    /\ UNCHANGED <<options, marketsLoaded, exceptions, statusRecord>>

ParseOHLCVCall ==
    /\ pending.op = "parseOHLCV"
    /\ last' = [op |-> "parseOHLCV", ohlcv |-> pending.ohlcv, result |-> ParseOHLCV(pending.ohlcv)]
    /\ pending' = NoCall
    /\ UNCHANGED <<options, marketsLoaded, exceptions, statusRecord>>

ParseTickerCall ==
    /\ pending.op = "parseTicker"
    /\ last' = [op |-> "parseTicker", ticker |-> pending.ticker, result |-> ParseTicker(pending.ticker)]
    /\ pending' = NoCall
    /\ UNCHANGED <<options, marketsLoaded, exceptions, statusRecord>>

\* sign called by the transport; the call carries the credentials of the
\* adapter it is made on
SignCall ==
    /\ pending.op = "sign"
    /\ last' = [op |-> "sign", call |-> pending,
                out |-> Sign(pending.api, pending.method, pending.params, pending.headers,
                             pending.body, pending.apiKey, pending.secret)]
    /\ pending' = NoCall
    /\ UNCHANGED <<options, marketsLoaded, exceptions, statusRecord>>

\* what handleErrors reads of a reply whose JSON is an array: none of the
\* keys success, msg, code
ArrayReply(reply) ==
    [code |-> reply.code, body |-> reply.body,
     response |-> IF reply.code < 400 THEN Some(EmptyObject) ELSE None]

\* fetchCurrencies (): lines 117-165
FetchCurrencies ==
    /\ pending.op = "fetchCurrencies"
    /\ LET out == Request("public", ArrayReply(pending.reply), exceptions, options)
       IN  /\ options' = out.options
           /\ last' = [op |-> "fetchCurrencies",
                       reply |-> pending.reply,
                       calls |-> Invocations("publicGetCurrencies", out.attempts),
                       error |-> out.error,
                       result |-> IF out.error = "none"
                                  THEN Some(ParseCurrencies(pending.reply.json))
                                  ELSE None]
    /\ pending' = NoCall
    /\ UNCHANGED <<marketsLoaded, exceptions, statusRecord>>

\* the requests of fetchMarkets with the currencies fetched first
FetchMarketsRequestsCurrenciesFirst == <<"publicGetCurrencies", "publicGetMarkets">>

\* line 168: the requests fetchMarkets issues
FetchMarketsRequests == <<"publicGetMarkets">>

\* fetchMarkets (): lines 167-207
FetchMarkets ==
    /\ pending.op = "fetchMarkets"
    /\ LET out == Request("public", ArrayReply(pending.reply), exceptions, options)
       IN  /\ options' = out.options
           /\ last' = [op |-> "fetchMarkets",
                       reply |-> pending.reply,
                       calls |-> FetchMarketsRequests,
                       error |-> out.error,
                       result |-> IF out.error = "none"
                                  THEN Some(ParseMarkets(pending.reply.json))
                                  ELSE None]
    /\ pending' = NoCall
    /\ UNCHANGED <<marketsLoaded, exceptions, statusRecord>>

\* ---------------------------------------------------------------- inputs
\* an object with the key k when x is defined, the empty object otherwise
Field(k, x) == IF IsSome(x) THEN [kk \in {k} |-> Val(x)] ELSE EmptyObject

Opt(S) == {None} \cup {Some(v) : v \in S}

HttpCodes == {200, 400, 418, 429}

BodyPhrases == {"Price * QTY is zero or less", "LOT_SIZE", "PRICE_FILTER"}

Bodies == UNION {[1..n -> BodyPhrases] : n \in 0..MaxBodyLen}

Messages == {"Invalid quantity.", "API key does not exist", "{\"code\":0}",
             "{\"code\":-1121,\"msg\":\"Invalid symbol.\"}",
             "{\"msg\":\"Market is closed.\"}", "451"}

ErrorCodes == {"-2015", "-1013", "-1121", "200", "0"}

Envelopes ==
    {Extend(Extend(Field("success", s), Field("msg", m)), Field("code", c)) :
        s \in Opt(BOOLEAN), m \in Opt(Messages), c \in Opt(ErrorCodes)}

ExceptionTables ==
    {EmptyObject,
     [k \in {"-2015", "-1013", "API key does not exist", "Market is closed."} |->
        CASE k = "-2015" -> "AuthenticationError"
          [] k = "-1013" -> "InvalidOrder"
          [] k = "API key does not exist" -> "AuthenticationError"
          [] k = "Market is closed." -> "ExchangeNotAvailable"]}

\* the options the adapter is constructed with
InitialOptions ==
    {EmptyObject,
     [defaultType |-> "future"],
     [defaultType |-> "margin", fetchOrder |-> "delivery", fetchOrders |-> "delivery",
      fetchOpenOrders |-> "delivery", fetchMyTrades |-> "delivery", createOrder |-> "delivery",
      cancelAllOrders |-> "delivery"]}

OrderStatuses == (DOMAIN statuses) \cup {"new", "Filled", "UNKNOWN", Undefined}

RawOrders ==
    {Extend(Extend(Extend(Extend(Field("status", st), Field("origQty", a)), Field("executedQty", f)),
                   Field("type", ty)), Field("timeInForce", tif)) :
        st \in Opt({"NEW", "FILLED", "UNKNOWN"}), a \in Opt({1, 2}), f \in Opt({0, 2}),
        ty \in Opt({"LIMIT", "LIMIT_MAKER"}), tif \in Opt({"GTC", "GTX"})}

OrdinaryTrades ==
    {Extend(Extend(Extend(Extend(Extend(Field("m", m), Field("isBuyerMaker", bm)), Field("side", sd)),
                          Field("isBuyer", b)), Field("p", p)), Field("qty", q)) :
        m \in Opt(BOOLEAN), bm \in Opt(BOOLEAN), sd \in Opt({"BUY", "SELL"}), b \in Opt(BOOLEAN),
        p \in Opt({0, 3}), q \in Opt({2})}

DustTrades ==
    {Extend(Extend(Extend(Extend(Extend([isDustTrade |-> d], Field("fromAsset", fa)),
                                 Field("transferedAmount", ta)), Field("serviceChargeAmount", sc)),
                   Field("amount", am)), Field("m", m)) :
        fa \in Opt({"USDT", "ADA"}), ta \in Opt({5}), sc \in Opt({1}), am \in Opt({0, 8}),
        m \in Opt({TRUE}), d \in BOOLEAN}

RawTrades == OrdinaryTrades \cup DustTrades

RawTransactions ==
    {Extend(Extend(Extend(Extend([amount |-> 3], Field("type", ty)), Field("insertTime", it)),
                   Field("applyTime", at)), Field("status", st)) :
        ty \in Opt({"deposit", "withdrawal"}), it \in Opt({100}), at \in Opt({200}),
        st \in Opt({0, 1, 3, 6, 7})}

\* raw candles: the open time in milliseconds, open, high, low, close,
\* volume, then the further columns of the exchange, cut at n columns
RawCandles ==
    {SubSeq(<<t, o, 9, 1, c, v>> \o [i \in 1..(MaxColumns - 6) |-> 70 + i], 1, n) :
        t \in {1591478520}, o \in {2, 3}, c \in {4, 5}, v \in {0, 22}, n \in 0..MaxColumns}

RawTickers ==
    {Extend(Extend(Extend(Extend([symbol |-> "BNBUSDT"], Field("lastPrice", l)),
                          Field("openPrice", o)), Field("priceChange", ch)),
            Field("priceChangePercent", pc)) :
        l \in Opt({5, 6}), o \in Opt({0, 4}), ch \in Opt({1, 7}), pc \in Opt({25, 9})}

SignCalls ==
    {[op |-> "sign", api |-> api, method |-> m, params |-> p, headers |-> h, body |-> b,
      apiKey |-> k, secret |-> sc] :
        api \in {"public", "private", "wapi"}, m \in {"GET", "POST"},
        p \in {EmptyObject, [symbol |-> "BTCUSDT"], [symbol |-> "BTCUSDT", orderId |-> "7"]},
        h \in Opt({[Accept |-> "application/json"]}), b \in Opt({"{}"}),
        k \in {Undefined, "key"}, sc \in {Undefined, "secret"}}

PureCalls ==
    {[op |-> "handleErrors", code |-> c, body |-> b, response |-> r] :
        c \in HttpCodes, b \in Bodies, r \in Opt(Envelopes)}
    \cup {[op |-> "parseOrderStatus", status |-> st] : st \in OrderStatuses}
    \cup {[op |-> "parseOrder", order |-> o] : o \in RawOrders}
    \cup {[op |-> "parseTrade", trade |-> t] : t \in RawTrades}
    \cup {[op |-> "parseTransaction", transaction |-> t] : t \in RawTransactions}
    \cup SignCalls
    \cup {[op |-> "parseOHLCV", ohlcv |-> r] : r \in RawCandles}
    \cup {[op |-> "parseTicker", ticker |-> t] : t \in RawTickers}

\* a network of a currency entry: a chain with its withdrawal fee (or
\* without one), an order or none, the two flags or none
Networks ==
    {Extend(Extend(cf, Field("order", o)), fl) :
        cf \in {[chain |-> "ETH", withdrawStaticCommission |-> 3],
                [chain |-> "BSC", withdrawStaticCommission |-> 5],
                [chain |-> "TRX"]},
        o \in Opt({1, 2}),
        fl \in {[isDepositable |-> TRUE, isWithdrawable |-> TRUE],
                [isDepositable |-> FALSE, isWithdrawable |-> TRUE],
                EmptyObject}}

\* the currency id of the i-th entry of a response
CurrencyId(i) == CASE i = 1 -> "BNB" [] i = 2 -> "USDT" [] OTHER -> "XBT"

\* the i-th entry of a response: its networks under 'networks', or with no
\* 'networks' key at all
CurrencyEntry(i, networkList, bare) ==
    IF bare THEN [symbol |-> CurrencyId(i)]
    ELSE [symbol |-> CurrencyId(i), smallestUnitScale |-> 8, networks |-> networkList]

RECURSIVE SumTo(_, _)
\* lens[1] + ... + lens[i]
SumTo(lens, i) == IF i = 0 THEN 0 ELSE lens[i] + SumTo(lens, i - 1)

\* the response whose i-th entry has the next lens[i] networks of flat
CurrencyResponse(lens, bare, flat) ==
    [i \in DOMAIN lens |->
        CurrencyEntry(i, [j \in 1..lens[i] |-> flat[SumTo(lens, i - 1) + j]], bare[i])]

RawMarkets ==
    {Extend(Extend(Extend(Extend([name |-> "m1"], Field("baseCurrencySymbol", b)),
                          Field("quoteCurrencySymbol", q)), Field("minAmount", mn)),
            Field("maxAmount", mx)) :
        b \in Opt({"BTC", "XBT"}), q \in Opt({"USDT"}), mn \in Opt({1}), mx \in Opt({9})}

\* a reply of the currencies or the markets endpoint with a JSON array
ArrayReplyOf(json) == [code |-> 200, body |-> <<>>, json |-> json]

\* a reply refused for the rate limit
RefusedReply == [code |-> 429, body |-> <<>>, json |-> <<>>]

\* replies of the exchange to the trading requests
Replies ==
    {[code |-> 200, body |-> <<>>,
      response |-> Some([orderId |-> "7", status |-> "FILLED", origQty |-> 2, executedQty |-> 2,
                         type |-> "LIMIT", side |-> "BUY"])],
     [code |-> 400, body |-> <<>>, response |-> Some([code |-> "-2015"])]}

\* replies of the system status endpoint
StatusReplies ==
    {[code |-> 200, body |-> <<>>, response |-> Some([status |-> 1])],
     [code |-> 200, body |-> <<>>, response |-> Some(EmptyObject)],
     [code |-> 400, body |-> <<>>, response |-> Some([code |-> "-2015"])]}

\* replies of the dust log endpoint
DustReplies ==
    {[code |-> 200, body |-> <<>>,
      response |-> Some([success |-> TRUE,
                         results |-> [rows |-> <<[logs |-> <<[fromAsset |-> "ADA", amount |-> 8,
                                                              transferedAmount |-> 5,
                                                              serviceChargeAmount |-> 1]>>]>>]])],
     [code |-> 200, body |-> <<>>, response |-> Some([success |-> TRUE])],
     [code |-> 400, body |-> <<>>, response |-> Some([code |-> "-2015"])]}

OrderParams ==
    {EmptyObject, [type |-> "margin"], [clientOrderId |-> "c1"],
     [type |-> "future", clientOrderId |-> "c1", origClientOrderId |-> "o1"],
     [origClientOrderId |-> "o1", orderId |-> "9"]}

ListParams == {EmptyObject, [type |-> "margin"], [type |-> "swap"]}

CreateParams ==
    {EmptyObject, [type |-> "future", stopPrice |-> 7], [callbackRate |-> 1],
     [type |-> "margin", stopPrice |-> 7, test |-> TRUE, clientOrderId |-> "c1"]}

OrderTypes == {"limit", "market", "LIMIT_MAKER", "stop_loss", "trailing_stop_market"}

SymbolArgs == {Undefined, "BTC/USDT", "BNB/USDT", "BTC/USD-PERP"}

CreateSymbols == {"BNB/USDT", "BTC/USD-PERP"}

\* ---------------------------------------------------------- specification
Idle == [op |-> "none"]

\* the adapter as its description builds it (no options, no exception
\* table), or one constructed with options and a table
Init ==
    /\ \/ options = EmptyObject /\ exceptions = EmptyObject
       \/ options \in InitialOptions /\ exceptions \in ExceptionTables \ {EmptyObject}
    /\ marketsLoaded = FALSE
    /\ statusRecord = InitialStatus
    /\ pending = NoCall
    /\ last = Idle

Next ==
    \/ \E symbol \in SymbolArgs, params \in OrderParams, reply \in Replies :
           FetchOrder("7", symbol, params, reply)
    \/ \E symbol \in SymbolArgs, window \in {None, Some(1)}, params \in ListParams \ {[type |-> "swap"]},
          reply \in Replies :
           FetchOrders(symbol, window, window, params, reply)
    \/ \E symbol \in SymbolArgs, params \in OrderParams, reply \in Replies :
           CancelOrder("7", symbol, params, reply)
    \/ \E symbol \in SymbolArgs, params \in ListParams \ {[type |-> "swap"]}, reply \in Replies :
           CancelAllOrders(symbol, params, reply)
    \/ \E symbol \in SymbolArgs, window \in {None, Some(1)}, params \in ListParams, reply \in Replies :
           FetchMyTrades(symbol, window, window, params, reply)
    \/ \E symbol \in CreateSymbols, type \in OrderTypes, price \in Opt({3}),
          params \in CreateParams, reply \in Replies :
           CreateOrder(symbol, type, "buy", 2, price, params, reply)
    \/ \E reply \in StatusReplies :
           FetchStatus(EmptyObject, reply, 1)
    \/ \E reply \in DustReplies :
           FetchMyDustTrades(Undefined, EmptyObject, reply)

Spec == Init /\ [][Next]_vars

\* the hook and the parsers on one drawn call; the authenticated flag is
\* one that request () has set or not
PureInit ==
    /\ \E o \in InitialOptions, flag \in Opt({TRUE}) :
           options = Extend(o, Field("hasAlreadyAuthenticatedSuccessfully", flag))
    /\ marketsLoaded = TRUE
    /\ exceptions \in ExceptionTables
    /\ statusRecord = InitialStatus
    /\ pending \in PureCalls
    /\ last = Idle

PureNext ==
    \/ HandleErrorsCall
    \/ ParseOrderStatusCall
    \/ ParseOrderCall
    \/ ParseTradeCall
    \/ ParseTransactionCall
    \/ SignCall
    \/ ParseOHLCVCall
    \/ ParseTickerCall

PureSpec == PureInit /\ [][PureNext]_vars

\* fetchCurrencies and fetchMarkets on one drawn reply of the exchange
MarketInit ==
    /\ options = EmptyObject
    /\ marketsLoaded = FALSE
    /\ exceptions \in ExceptionTables \ {EmptyObject}
    /\ statusRecord = InitialStatus
    /\ \/ \E n \in 0..MaxCurrencies : \E lens \in [1..n -> 0..MaxNetworks], bare \in [1..n -> BOOLEAN] :
              /\ SumTo(lens, n) <= MaxNetworks
              /\ \A i \in 1..n : bare[i] => lens[i] = 0
              /\ \E flat \in [1..SumTo(lens, n) -> Networks] :
                    pending = [op |-> "fetchCurrencies",
                               reply |-> ArrayReplyOf(CurrencyResponse(lens, bare, flat))]
       \/ \E n \in 0..MaxMarkets : \E json \in [1..n -> RawMarkets] :
              pending = [op |-> "fetchMarkets", reply |-> ArrayReplyOf(json)]
       \/ \E op \in {"fetchCurrencies", "fetchMarkets"} :
              pending = [op |-> op, reply |-> RefusedReply]
    /\ last = Idle

MarketNext ==
    \/ FetchCurrencies
    \/ FetchMarkets

MarketSpec == MarketInit /\ [][MarketNext]_vars

\* ------------------------------------------------------------ properties
TradingOps == {"createOrder", "fetchOrder", "fetchOrders", "fetchMyTrades", "cancelOrder"}

\* C1: fetchOrder, fetchMyTrades and cancelOrder called with an undefined
\* symbol raise ArgumentsRequired having invoked neither loadMarkets nor any
\* endpoint.
C1_ArgumentsRequiredBeforeNetwork ==
    (last.op \in {"fetchOrder", "fetchMyTrades", "cancelOrder"} /\ last.symbol = Undefined)
        => (last.error = "ArgumentsRequired" /\ last.calls = <<>>)

C1_Witness ==
    /\ last.op = "cancelOrder"
    /\ last.symbol = Undefined
    /\ last.error = "ArgumentsRequired"
    /\ ~marketsLoaded

\* the raw body carries one of the phrases scanned for on a status >= 400
InvalidOrderPhrase(body) ==
    \E i \in 1..Len(body) :
        body[i] \in {"Price * QTY is zero or less", "LOT_SIZE", "PRICE_FILTER"}

\* the string s is absent or is not a key of the exception table
Unmatched(o, k) == Has(o, k) => o[k] \notin DOMAIN exceptions

\* C2 (as claimed): whatever the HTTP status, a body containing LOT_SIZE
\* makes handleErrors raise InvalidOrder.
C2_LotSizeAnyStatus ==
    (last.op = "handleErrors" /\ (\E i \in 1..Len(last.body) : last.body[i] = "LOT_SIZE"))
        => last.error = "InvalidOrder"

\* C2 (amended): on an HTTP status >= 400 other than 418 and 429, a body
\* containing LOT_SIZE makes handleErrors raise InvalidOrder (never
\* ExchangeError), whatever the parsed response is.
C2_LotSizeOnErrorStatus ==
    (/\ last.op = "handleErrors"
     /\ last.code >= 400
     /\ last.code \notin {418, 429}
     /\ \E i \in 1..Len(last.body) : last.body[i] = "LOT_SIZE")
        => last.error = "InvalidOrder"

C2_Witness ==
    /\ last.op = "handleErrors"
    /\ last.code = 400
    /\ last.body = <<"LOT_SIZE">>
    /\ IsSome(last.response)
    /\ Has(Val(last.response), "code")
    /\ Val(last.response)["code"] = "-1121"
    /\ last.error = "InvalidOrder"

\* C3 (as claimed): a response whose code is "-2015", received while the
\* authenticated flag is set, raises DDoSProtection.
C3_BanEscalationAlways ==
    (/\ last.op = "handleErrors"
     /\ IsSome(last.response)
     /\ Has(Val(last.response), "code")
     /\ Val(last.response)["code"] = "-2015"
     /\ last.authenticated)
        => last.error = "DDoSProtection"

\* C3 (amended): such a response raises DDoSProtection when no earlier
\* check decides: the status is not one >= 400 whose body carries an
\* InvalidOrder phrase, the message (if any) is not a key of the exception
\* table, and the response is not replaced by its re-parsed message
\* (success false with a JSON message).
C3_BanEscalation ==
    (/\ last.op = "handleErrors"
     /\ IsSome(last.response)
     /\ Has(Val(last.response), "code")
     /\ Val(last.response)["code"] = "-2015"
     /\ last.authenticated
     /\ ~(last.code >= 400 /\ InvalidOrderPhrase(last.body))
     /\ Unmatched(Val(last.response), "msg")
     /\ ~(/\ Has(Val(last.response), "success")
          /\ ~Val(last.response)["success"]
          /\ Has(Val(last.response), "msg")
          /\ IsSome(JsonParse(Val(last.response)["msg"]))))
        => last.error = "DDoSProtection"

C3_Witness ==
    /\ last.op = "handleErrors"
    /\ last.code = 400
    /\ last.response = Some([code |-> "-2015", msg |-> "Invalid quantity."])
    /\ last.authenticated
    /\ "-2015" \in DOMAIN exceptions
    /\ last.error = "DDoSProtection"

\* C4: every response with HTTP status 418 or 429 raises DDoSProtection,
\* whatever the body and the parsed response.
C4_RateLimitStatus ==
    (last.op = "handleErrors" /\ last.code \in {418, 429}) => last.error = "DDoSProtection"

C4_Witness ==
    /\ last.op = "handleErrors"
    /\ last.code = 418
    /\ last.body = <<"LOT_SIZE">>
    /\ last.response = Some([code |-> "-1013"])
    /\ "-1013" \in DOMAIN exceptions
    /\ last.error = "DDoSProtection"

\* C5 (as claimed): a parsed response whose message and code match no
\* table entry raises ExchangeError whenever a code other than "200" / "0"
\* is present or the success flag is false.
C5_UnmatchedRaisesAlways ==
    (/\ last.op = "handleErrors"
     /\ IsSome(last.response)
     /\ Unmatched(Val(last.response), "msg")
     /\ Unmatched(Val(last.response), "code")
     /\ \/ (Has(Val(last.response), "code") /\ Val(last.response)["code"] \notin {"200", "0"})
        \/ (Has(Val(last.response), "success") /\ ~Val(last.response)["success"]))
        => last.error = "ExchangeError"

\* C5 (amended): when no earlier check decides (status not 418 / 429, no
\* InvalidOrder phrase in the body of a status >= 400), a response whose
\* message and code, after the re-parse of a JSON message under success
\* false, match no table entry raises ExchangeError whenever a code other
\* than "200" / "0" is present (but "-2015" with the authenticated flag set
\* raises DDoSProtection), or no code is present and the success flag is
\* false.
C5_UnmatchedRaises ==
    (/\ last.op = "handleErrors"
     /\ IsSome(last.response)
     /\ last.code \notin {418, 429}
     /\ ~(last.code >= 400 /\ InvalidOrderPhrase(last.body))
     /\ Unmatched(ReparsedResponse(Val(last.response)), "msg")
     /\ Unmatched(ReparsedResponse(Val(last.response)), "code"))
        => LET r == ReparsedResponse(Val(last.response))
           IN  /\ (/\ Has(r, "code")
                   /\ r["code"] \notin {"200", "0"}
                   /\ ~(r["code"] = "-2015" /\ last.authenticated))
                      => last.error = "ExchangeError"
               /\ (Has(r, "code") /\ r["code"] = "-2015" /\ last.authenticated)
                      => last.error = "DDoSProtection"
               /\ (/\ ~Has(r, "code")
                   /\ Has(Val(last.response), "success")
                   /\ ~Val(last.response)["success"])
                      => last.error = "ExchangeError"

C5_Witness ==
    /\ last.op = "handleErrors"
    /\ last.code = 400
    /\ last.body = <<>>
    /\ last.response = Some([code |-> "-1121", msg |-> "Invalid quantity."])
    /\ exceptions # EmptyObject
    /\ last.error = "ExchangeError"

\* the options key a trading operation reads its default type from
OptionKey(op) == IF op = "cancelOrder" THEN "fetchOpenOrders" ELSE op

\* C6 (as claimed): the type of a trading operation is the type given in
\* params if present, otherwise the market's own type if it has one (ahead
\* of any default kept in options).
C6_MarketTypeBeforeOptions ==
    (last.op \in TradingOps /\ last.symbol # Undefined)
        => LET market == Markets[last.symbol]
           IN  /\ Has(last.params, "type") => last.type = last.params["type"]
               /\ (~Has(last.params, "type") /\ Has(market, "type")) => last.type = market["type"]

\* C6 (amended): the type is resolved in four tiers: the type given in
\* params, otherwise the operation's own entry in options (cancelOrder
\* reads the entry of fetchOpenOrders), otherwise options.defaultType,
\* otherwise the market's own type (undefined when it has none); the
\* defaults kept in options come ahead of the market's type.
C6_OptionsBeforeMarketType ==
    (last.op \in TradingOps /\ last.symbol # Undefined)
        => LET market == Markets[last.symbol]
           IN  /\ Has(last.params, "type") => last.type = last.params["type"]
               /\ (~Has(last.params, "type") /\ Has(options, OptionKey(last.op)))
                      => last.type = options[OptionKey(last.op)]
               /\ (/\ ~Has(last.params, "type")
                   /\ ~Has(options, OptionKey(last.op))
                   /\ Has(options, "defaultType"))
                      => last.type = options["defaultType"]
               /\ (/\ ~Has(last.params, "type")
                   /\ ~Has(options, OptionKey(last.op))
                   /\ ~Has(options, "defaultType"))
                      => last.type = (IF Has(market, "type") THEN market["type"] ELSE Undefined)

C6_Witness ==
    /\ last.op = "fetchOrder"
    /\ last.symbol = "BNB/USDT"
    /\ ~Has(last.params, "type")
    /\ Has(options, "defaultType")
    /\ ~Has(options, "fetchOrder")
    /\ options["defaultType"] = "future"
    /\ last.type = "future"
    /\ last.method = "fapiPrivateGetOrder"

\* the endpoint family of a method
Family(method) ==
    CASE ApiOf(method) = "private" -> "spot"
      [] ApiOf(method) = "sapi" -> "margin"
      [] ApiOf(method) = "fapiPrivate" -> "linear-futures"
      [] ApiOf(method) = "dapiPrivate" -> "inverse-delivery"
      [] OTHER -> "none"

\* C7: the resolved type selects the endpoint family: future the linear
\* futures, delivery the inverse delivery, margin the margin, anything else
\* the spot family.
C7_TypeSelectsFamily ==
    (last.op \in TradingOps \cup {"cancelAllOrders"} /\ last.symbol # Undefined)
        => Family(last.method) =
               (CASE last.type = "future" -> "linear-futures"
                  [] last.type = "delivery" -> "inverse-delivery"
                  [] last.type = "margin" -> "margin"
                  [] OTHER -> "spot")

\* C8: parseOrderStatus maps the seven exchange codes and returns every
\* other status (also one differing in case, also an absent one) unchanged.
C8_StatusTable ==
    last.op = "parseOrderStatus"
        => last.result =
               (CASE last.status = "NEW" -> "open"
                  [] last.status = "PARTIALLY_FILLED" -> "open"
                  [] last.status = "FILLED" -> "closed"
                  [] last.status = "CANCELED" -> "canceled"
                  [] last.status = "PENDING_CANCEL" -> "canceling"
                  [] last.status = "REJECTED" -> "rejected"
                  [] last.status = "EXPIRED" -> "expired"
                  [] OTHER -> last.status)

C8_Witness ==
    /\ last.op = "parseOrderStatus"
    /\ last.status = "Filled"
    /\ last.result = "Filled"

\* C9 (as claimed): an order parsed from a raw order without a status has
\* the status closed exactly when executedQty equals origQty.
C9_StatusDerivedFromFilled ==
    (last.op = "parseOrder" /\ ~Has(last.order, "status"))
        => (last.result.status = "closed"
               <=> (/\ Has(last.order, "origQty")
                    /\ Has(last.order, "executedQty")
                    /\ last.order["origQty"] = last.order["executedQty"]))

\* C9 (amended): an order parsed from a raw order without a status has an
\* undefined status whatever executedQty and origQty are; the status is
\* only ever the table lookup of the raw status.
C9_StatusLeftUnset ==
    last.op = "parseOrder"
        => /\ ~Has(last.order, "status") => last.result.status = Undefined
           /\ (Has(last.order, "status") /\ last.order["status"] = "FILLED")
                  => last.result.status = "closed"
           /\ (Has(last.order, "status") /\ last.order["status"] = "NEW")
                  => last.result.status = "open"

C9_Witness ==
    /\ last.op = "parseOrder"
    /\ ~Has(last.order, "status")
    /\ Has(last.order, "origQty")
    /\ Has(last.order, "executedQty")
    /\ last.order["origQty"] = last.order["executedQty"]
    /\ last.result.filled = last.result.amount
    /\ last.result.status = Undefined

\* the side the four fields give when probed in the order m, isBuyerMaker,
\* side, isBuyer
ProbedSide(t, side) ==
    /\ Has(t, "m") => side = (IF t["m"] THEN "sell" ELSE "buy")
    /\ (~Has(t, "m") /\ Has(t, "isBuyerMaker"))
           => side = (IF t["isBuyerMaker"] THEN "sell" ELSE "buy")
    /\ (~Has(t, "m") /\ ~Has(t, "isBuyerMaker") /\ Has(t, "side"))
           => ((t["side"] = "BUY" => side = "buy") /\ (t["side"] = "SELL" => side = "sell"))
    /\ (~Has(t, "m") /\ ~Has(t, "isBuyerMaker") /\ ~Has(t, "side") /\ Has(t, "isBuyer"))
           => side = (IF t["isBuyer"] THEN "buy" ELSE "sell")
    /\ (~Has(t, "m") /\ ~Has(t, "isBuyerMaker") /\ ~Has(t, "side") /\ ~Has(t, "isBuyer"))
           => side = Undefined

\* C10 (as claimed): the side of every trade parseTrade normalizes is the
\* one the first present field of m, isBuyerMaker, side, isBuyer gives,
\* and is undefined when none is present.
C10_SideProbedAlways ==
    last.op = "parseTrade" => ProbedSide(last.trade, last.result.side)

\* C10 (amended): the same, for every trade that does not carry the
\* isDustTrade marker (a marked trade gets its side from parseDustTrade).
C10_SideProbed ==
    (last.op = "parseTrade" /\ ~Has(last.trade, "isDustTrade"))
        => ProbedSide(last.trade, last.result.side)

C10_Witness ==
    /\ last.op = "parseTrade"
    /\ ~Has(last.trade, "isDustTrade")
    /\ Has(last.trade, "m")
    /\ last.trade["m"]
    /\ Has(last.trade, "side")
    /\ last.trade["side"] = "BUY"
    /\ Has(last.trade, "isBuyer")
    /\ last.trade["isBuyer"]
    /\ last.result.side = "sell"

\* C11: for every trade without the dust marker that parseTrade normalizes,
\* cost equals price * amount when both price and amount are defined, and
\* cost is undefined when either of them is undefined.
C11_CostIsPriceTimesAmount ==
    (last.op = "parseTrade" /\ ~Has(last.trade, "isDustTrade"))
        => LET r == last.result
           IN  IF IsSome(r.price) /\ IsSome(r.amount)
               THEN r.cost = Some(Val(r.price) * Val(r.amount))
               ELSE r.cost = None

C11_Witness ==
    /\ last.op = "parseTrade"
    /\ ~Has(last.trade, "isDustTrade")
    /\ last.result.price = Some(3)
    /\ last.result.amount = Some(2)
    /\ last.result.cost = Some(6)

\* C12: for a dust record with transferred amount A and service charge F
\* the earned quantity reported is A + F, as the amount when the side is
\* buy and as the cost when the side is sell, and the fee entry has cost F
\* in the earned currency.
C12_DustGrossIsSum ==
    (/\ last.op = "parseTrade"
     /\ Has(last.trade, "isDustTrade")
     /\ Has(last.trade, "transferedAmount")
     /\ Has(last.trade, "serviceChargeAmount"))
        => LET r == last.result
               A == last.trade["transferedAmount"]
               F == last.trade["serviceChargeAmount"]
           IN  /\ r.side \in {"buy", "sell"}
               /\ r.side = "buy" => r.amount = Some(A + F)
               /\ r.side = "sell" => r.cost = Some(A + F)
               /\ r.fee = Some([currency |-> "BNB", cost |-> Some(F)])

C12_Witness ==
    /\ last.op = "parseTrade"
    /\ Has(last.trade, "isDustTrade")
    /\ Has(last.trade, "transferedAmount")
    /\ Has(last.trade, "serviceChargeAmount")
    /\ last.result.side = "sell"
    /\ last.result.cost = Some(6)
    /\ last.result.amount = Some(8)

\* C13: a raw trade with the key 'isDustTrade' present is normalized by
\* parseDustTrade, never by the ordinary path: its symbol is
\* earned/traded with side buy when that symbol is a loaded market, and
\* traded/earned with side sell otherwise; the side is not read from 'm'
\* and the fee is the fee entry in the earned currency.
C13_DustRouting ==
    (last.op = "parseTrade" /\ Has(last.trade, "isDustTrade"))
        => LET r == last.result
               traded == SafeCurrencyCode(SafeString(last.trade, "fromAsset", Undefined))
           IN  /\ IF ("BNB" \o "/" \o traded) \in Symbols
                  THEN r.symbol = "BNB" \o "/" \o traded /\ r.side = "buy"
                  ELSE r.symbol = traded \o "/" \o "BNB" /\ r.side = "sell"
               /\ IsSome(r.fee)
               /\ Val(r.fee).currency = "BNB"
               /\ r.takerOrMaker = Undefined

C13_Witness ==
    /\ last.op = "parseTrade"
    /\ Has(last.trade, "isDustTrade")
    /\ last.trade["isDustTrade"] = FALSE
    /\ Has(last.trade, "m")
    /\ last.result.symbol = "BNB/USDT"
    /\ last.result.side = "buy"

\* the networks of the i-th entry of a currencies response
NetworksOf(entry) == SafeValue(entry, "networks", <<>>)

\* the currency the result holds for an entry
CurrencyFor(result, entry) == result[SafeCurrencyCode(SafeString(entry, "symbol", Undefined))]

SomeNetwork(entry, flag) ==
    \E j \in 1..Len(NetworksOf(entry)) :
        Has(NetworksOf(entry)[j], flag) /\ NetworksOf(entry)[j][flag] = TRUE

FetchedCurrencies == last.op = "fetchCurrencies" /\ last.error = "none"

\* C14: every entry of the currencies response with at least one network
\* marked withdrawable or depositable yields a currency whose active is
\* true.
C14_ActiveWhenAnyNetworkEnabled ==
    FetchedCurrencies
        => \A i \in 1..Len(last.reply.json) :
              LET entry == last.reply.json[i]
              IN  (SomeNetwork(entry, "isWithdrawable") \/ SomeNetwork(entry, "isDepositable"))
                      => CurrencyFor(Val(last.result), entry).active = Some(TRUE)

C14_Witness ==
    /\ FetchedCurrencies
    /\ \E i \in 1..Len(last.reply.json) :
           LET entry == last.reply.json[i]
           IN  /\ SomeNetwork(entry, "isWithdrawable")
               /\ ~SomeNetwork(entry, "isDepositable")
               /\ CurrencyFor(Val(last.result), entry).active = Some(TRUE)

\* C15: a currency is active only if some network of its entry is
\* depositable and some network is withdrawable; an entry with no
\* networks, or with no depositable or no withdrawable network, yields a
\* currency that is not active.
C15_ActiveOnlyIfBothEnabled ==
    FetchedCurrencies
        => \A i \in 1..Len(last.reply.json) :
              LET entry == last.reply.json[i]
              IN  CurrencyFor(Val(last.result), entry).active = Some(TRUE)
                      => (SomeNetwork(entry, "isDepositable") /\ SomeNetwork(entry, "isWithdrawable"))

\* the first network with the minimum order, for a list whose networks
\* all declare one
MinOrderNetwork(networkList) ==
    CHOOSE j \in 1..Len(networkList) :
        /\ \A k \in 1..Len(networkList) : networkList[j]["order"] <= networkList[k]["order"]
        /\ \A k \in 1..(j - 1) : networkList[k]["order"] > networkList[j]["order"]

\* C16: the fee of a currency is the withdrawal fee of the network with
\* the minimum declared order among its networks (the first one on a tie),
\* and fees maps every chain to its own withdrawal fee; stated for the
\* entries whose networks all declare an order and a withdrawal fee.
C16_FeeOfMinimumOrder ==
    FetchedCurrencies
        => \A i \in 1..Len(last.reply.json) :
              LET entry == last.reply.json[i]
                  networkList == NetworksOf(entry)
                  currency == CurrencyFor(Val(last.result), entry)
              IN  (/\ Len(networkList) > 0
                   /\ \A j \in 1..Len(networkList) :
                         Has(networkList[j], "order") /\ Has(networkList[j], "withdrawStaticCommission"))
                      => /\ currency.fee =
                              SafeNumber(networkList[MinOrderNetwork(networkList)],
                                         "withdrawStaticCommission")
                         /\ \A j \in 1..Len(networkList) :
                               currency.fees[networkList[j]["chain"]] =
                                   SafeNumber(networkList[j], "withdrawStaticCommission")

FetchedMarkets == last.op = "fetchMarkets" /\ last.error = "none"

\* C17: every market fetchMarkets returns has symbol = baseId + "/" +
\* quoteId on the raw currency ids of its record, and limits.amount.min
\* and .max are the record's minAmount and maxAmount.
C17_MarketSymbolAndLimits ==
    FetchedMarkets
        => /\ Len(Val(last.result)) = Len(last.reply.json)
           /\ \A i \in 1..Len(last.reply.json) :
                 LET raw == last.reply.json[i]
                     market == Val(last.result)[i]
                 IN  /\ market.baseId = SafeString(raw, "baseCurrencySymbol", Undefined)
                     /\ market.quoteId = SafeString(raw, "quoteCurrencySymbol", Undefined)
                     /\ market.symbol = market.baseId \o "/" \o market.quoteId
                     /\ market.limits.amount.min = SafeNumber(raw, "minAmount")
                     /\ market.limits.amount.max = SafeNumber(raw, "maxAmount")

C17_Witness ==
    /\ FetchedMarkets
    /\ Len(Val(last.result)) = 2
    /\ Val(last.result)[1].symbol = "XBT/USDT"
    /\ Val(last.result)[1].limits.amount.min = Some(1)
    /\ Val(last.result)[2].limits.amount.max = Some(9)

\* C18: in every execution of fetchMarkets the currencies request is
\* issued before the markets request.
C18_CurrenciesFetchedFirst ==
    last.op = "fetchMarkets"
        => \E i, j \in 1..Len(last.calls) :
              /\ i < j
              /\ last.calls[i] = "publicGetCurrencies"
              /\ last.calls[j] = "publicGetMarkets"

\* C18 (amended): fetchMarkets issues one request, the markets request,
\* and no currencies request.
C18_MarketsRequestOnly ==
    last.op = "fetchMarkets" => last.calls = <<"publicGetMarkets">>

C18_Witness ==
    /\ FetchedMarkets
    /\ last.calls = <<"publicGetMarkets">>
    /\ Len(Val(last.result)) > 0

\* the status the claim's tables give a raw numeric status under a type
ExpectedTransactionStatus(n, type) ==
    CASE type = "deposit" /\ n = 0 -> "pending"
      [] type = "deposit" /\ n = 1 -> "ok"
      [] type = "withdrawal" /\ n \in {0, 2, 4} -> "pending"
      [] type = "withdrawal" /\ n = 1 -> "canceled"
      [] type = "withdrawal" /\ n \in {3, 5} -> "failed"
      [] type = "withdrawal" /\ n = 6 -> "ok"
      [] OTHER -> NumberToString(n)

\* C19: for a raw transaction with no 'type', insertTime alone gives type
\* deposit with timestamp insertTime, applyTime alone gives type
\* withdrawal with timestamp applyTime, and both or neither leave type
\* and timestamp undefined; the numeric status is mapped through the
\* table of the inferred type, unknown statuses passing through.
C19_TypeInferredFromTimestamps ==
    (last.op = "parseTransaction" /\ ~Has(last.transaction, "type"))
        => LET t == last.transaction
               r == last.result
               ins == Has(t, "insertTime")
               app == Has(t, "applyTime")
           IN  /\ (ins /\ ~app) => (r.type = "deposit" /\ r.timestamp = Some(t["insertTime"]))
               /\ (app /\ ~ins) => (r.type = "withdrawal" /\ r.timestamp = Some(t["applyTime"]))
               /\ (ins <=> app) => (r.type = Undefined /\ r.timestamp = None)
               /\ Has(t, "status") => r.status = ExpectedTransactionStatus(t["status"], r.type)

C19_Witness ==
    /\ last.op = "parseTransaction"
    /\ ~Has(last.transaction, "type")
    /\ Has(last.transaction, "applyTime")
    /\ ~Has(last.transaction, "insertTime")
    /\ Has(last.transaction, "status")
    /\ last.transaction["status"] = 1
    /\ last.result.type = "withdrawal"
    /\ last.result.status = "canceled"

\* the flag request () sets
AuthenticatedFlag == [hasAlreadyAuthenticatedSuccessfully |-> TRUE]

\* C20: no operation writes the adapter's options, its status record or
\* the raw response object it was given.
C20_NoSharedStateWritten ==
    [][/\ options' = options
       /\ statusRecord' = statusRecord
       /\ last'.op = "fetchMyDustTrades" => last'.responseAfter = last'.response]_vars

\* C20 (amended): an operation writes options only by setting
\* hasAlreadyAuthenticatedSuccessfully to true, and does so exactly when
\* its request to a private or wapi endpoint returned without an error;
\* only a fetchStatus that returns writes the status record, setting
\* status to ok or maintenance and updated to the current time, and
\* returns the record it wrote; fetchMyDustTrades leaves the raw response it was
\* given with isDustTrade = true added to every log of every row, and
\* otherwise as it was.
C20_WritesFlagStatusAndDustMarker ==
    [][/\ options' = IF last'.error = "none" /\ ApiOf(last'.method) \in {"private", "wapi"}
                     THEN Extend(options, AuthenticatedFlag)
                     ELSE options
       /\ statusRecord' # statusRecord
              => /\ last'.op = "fetchStatus"
                 /\ last'.error = "none"
                 /\ last'.result = Some(statusRecord')
                 /\ statusRecord'.status \in {"ok", "maintenance"}
                 /\ IsSome(statusRecord'.updated)
       /\ last'.op = "fetchMyDustTrades"
              => LET before == last'.response
                     after == last'.responseAfter
                 IN  IF last'.error = "none" /\ Has(before, "results")
                     THEN /\ DOMAIN after = DOMAIN before
                          /\ \A k \in DOMAIN before \ {"results"} : after[k] = before[k]
                          /\ Len(after.results.rows) = Len(before.results.rows)
                          /\ \A i \in 1..Len(before.results.rows) :
                                LET logsBefore == before.results.rows[i].logs
                                    logsAfter == after.results.rows[i].logs
                                IN  /\ Len(logsAfter) = Len(logsBefore)
                                    /\ \A j \in 1..Len(logsBefore) :
                                          /\ Has(logsAfter[j], "isDustTrade")
                                          /\ logsAfter[j]["isDustTrade"] = TRUE
                                          /\ Omit(logsAfter[j], {"isDustTrade"}) = logsBefore[j]
                     ELSE after = before]_vars

C20_Witness ==
    /\ Has(options, "hasAlreadyAuthenticatedSuccessfully")
    /\ statusRecord.status = "maintenance"
    /\ last.op = "fetchMyDustTrades"
    /\ last.error = "none"
    /\ last.responseAfter # last.response

\* the positions of last.calls that invoke the operation's own endpoint
\* (not loadMarkets and the two requests it issues)
EndpointInvocations ==
    {i \in 1..Len(last.calls) :
        last.calls[i] \notin {"loadMarkets", "publicGetCurrencies", "publicGetMarkets"}}

\* C21: within one call of a unified operation the exchange endpoint is
\* invoked at most once, and when the call raised, after one invocation
\* or none, nothing is returned: the error is the outcome of the call.
C21_NoRetry ==
    last.op # "none"
        => /\ Cardinality(EndpointInvocations) <= 1
           /\ last.error # "none" => last.result = None

C21_Witness ==
    /\ last.op = "fetchOrder"
    /\ last.calls = <<"loadMarkets", "privateGetOrder">>
    /\ last.error \in {"AuthenticationError", "DDoSProtection"}
    /\ last.result = None

\* C22: for an API class other than 'public', sign raises when a
\* credential is missing and otherwise returns the URL-encoded params as
\* the body and exactly the API key, the secret and the form content
\* type as the headers; for 'public' it checks no credential and returns
\* the headers and the body it was given; the method is returned as given.
C22_Sign ==
    last.op = "sign"
        => LET c == last.call
               r == last.out
           IN  IF c.api # "public"
               THEN IF c.apiKey = Undefined \/ c.secret = Undefined
                    THEN r.error = "AuthenticationError" /\ r.result = None
                    ELSE /\ r.error = "none"
                         /\ DOMAIN Val(r.result) = {"url", "method", "body", "headers"}
                         /\ Val(r.result).method = c.method
                         /\ Val(r.result).body = Some(UrlEncode(c.params))
                         /\ DOMAIN Val(Val(r.result).headers) =
                               {"X-API-KEY", "X-API-SECRET", "Content-Type"}
                         /\ Val(Val(r.result).headers)["X-API-KEY"] = c.apiKey
                         /\ Val(Val(r.result).headers)["X-API-SECRET"] = c.secret
                         /\ Val(Val(r.result).headers)["Content-Type"] =
                               "application/x-www-form-urlencoded"
               ELSE /\ r.error = "none"
                    /\ DOMAIN Val(r.result) = {"url", "method", "body", "headers"}
                    /\ Val(r.result).method = c.method
                    /\ Val(r.result).body = c.body
                    /\ Val(r.result).headers = c.headers

C22_Witness ==
    /\ last.op = "sign"
    /\ last.call.api = "private"
    /\ last.call.body = Some("{}")
    /\ last.out.error = "none"
    /\ Val(last.out.result).body = Some("orderId=7&symbol=BTCUSDT")
    /\ Val(Val(last.out.result).headers)["X-API-KEY"] = "key"

\* C23: every row parseOHLCV emits has exactly 6 elements, the raw
\* positions 0..5 in order (further raw columns are dropped), and element
\* 0 is the raw timestamp, in milliseconds, unscaled.
C23_CandleOfSix ==
    last.op = "parseOHLCV"
        => /\ Len(last.result) = 6
           /\ \A k \in 0..5 :
                 last.result[k + 1] = IF k < Len(last.ohlcv) THEN Some(last.ohlcv[k + 1]) ELSE None
           /\ Len(last.ohlcv) > 0 => last.result[1] = Some(1591478520)

C23_Witness ==
    /\ last.op = "parseOHLCV"
    /\ Len(last.ohlcv) = 8
    /\ Len(last.result) = 6
    /\ last.result[1] = Some(1591478520)
    /\ last.result[6] = Some(22)

\* C24: every ticker parseTicker produces has last = close = the raw
\* lastPrice, and change and percentage are the raw priceChange and
\* priceChangePercent, not recomputed from open and last.
C24_TickerLastIsClose ==
    last.op = "parseTicker"
        => LET t == last.ticker
               r == last.result
           IN  /\ r.last = r.close
               /\ r.last = SafeNumber(t, "lastPrice")
               /\ r.change = SafeNumber(t, "priceChange")
               /\ r.percentage = SafeNumber(t, "priceChangePercent")

C24_Witness ==
    /\ last.op = "parseTicker"
    /\ last.result.last = Some(5)
    /\ last.result.close = Some(5)
    /\ last.result.open = Some(4)
    /\ last.result.change = Some(7)
    /\ last.result.percentage = Some(9)

\* the authenticated flag of an options object
Flagged(opts) == Has(opts, "hasAlreadyAuthenticatedSuccessfully")

\* the last call sent a request of the class 'private' or 'wapi' and the
\* transport returned
PrivateReturned ==
    /\ last.op # "none"
    /\ last.error = "none"
    /\ \E i \in EndpointInvocations : ApiOf(last.calls[i]) \in {"private", "wapi"}

\* the last call sent a request and the transport raised; the replies that
\* make it raise are the {"code": "-2015"} responses of HTTP status 400
Rejected ==
    /\ last.op # "none"
    /\ last.error # "none"
    /\ EndpointInvocations # {}

\* C25 (as claimed): the flag is unset at construction, is set exactly by
\* a returned request of the class 'private' or 'wapi' and is never reset;
\* a "-2015" response raises DDoSProtection when the flag was set before
\* the request and the generic ExchangeError when it was not.
C25_BanAfterAuthentication ==
    /\ ~Flagged(options)
    /\ [][/\ Flagged(options') = (Flagged(options) \/ PrivateReturned')
          /\ Rejected' => last'.error = IF Flagged(options) THEN "DDoSProtection" ELSE "ExchangeError"]_vars

\* C25 (amended): the same, except that without the flag the code is
\* looked up in the exception table first: the response raises the kind
\* the table gives for "-2015", and ExchangeError when the table has no
\* such entry.
C25_BanAfterAuthenticationOrTable ==
    /\ ~Flagged(options)
    /\ [][/\ Flagged(options') = (Flagged(options) \/ PrivateReturned')
          /\ Rejected' => last'.error = IF Flagged(options) THEN "DDoSProtection"
                                        ELSE IF "-2015" \in DOMAIN exceptions
                                             THEN exceptions["-2015"]
                                             ELSE "ExchangeError"]_vars

C25_Witness ==
    /\ Flagged(options)
    /\ Rejected
    /\ last.op = "fetchOrder"
    /\ last.error = "DDoSProtection"

\* C26: for every entry whose first network has a withdrawal fee, when
\* every network declares an order the currency's fee is the first
\* network's withdrawal fee whatever the orders are, and the fee differs
\* from it only if some later network declares no order.
C26_FirstNetworkWins ==
    FetchedCurrencies
        => \A i \in 1..Len(last.reply.json) :
              LET entry == last.reply.json[i]
                  networkList == NetworksOf(entry)
                  currency == CurrencyFor(Val(last.result), entry)
              IN  (Len(networkList) > 0 /\ Has(networkList[1], "withdrawStaticCommission"))
                      => LET first == Some(networkList[1]["withdrawStaticCommission"])
                         IN  /\ (\A j \in 1..Len(networkList) : Has(networkList[j], "order"))
                                    => currency.fee = first
                             /\ currency.fee # first
                                    => \E j \in 2..Len(networkList) : ~Has(networkList[j], "order")

C26_Witness ==
    /\ FetchedCurrencies
    /\ \E i \in 1..Len(last.reply.json) :
           LET entry == last.reply.json[i]
               networkList == NetworksOf(entry)
           IN  /\ Len(networkList) = 2
               /\ Has(networkList[1], "order") /\ networkList[1]["order"] = 2
               /\ Has(networkList[2], "order") /\ networkList[2]["order"] = 1
               /\ networkList[1]["chain"] = "BSC"
               /\ networkList[2]["chain"] = "ETH"
               /\ CurrencyFor(Val(last.result), entry).fee = Some(5)

\* C27: whenever createOrder raises InvalidOrder (an order type the market
\* does not allow, a required price, stopPrice or callbackRate missing),
\* no endpoint has been invoked in that call and no request was built for
\* one; no reply of the exchange is classified as InvalidOrder here, so
\* the error is one of createOrder's own checks.
C27_RejectedOrderNotSent ==
    (last.op = "createOrder" /\ last.error = "InvalidOrder")
        => /\ EndpointInvocations = {}
           /\ last.request = None
           /\ last.result = None

C27_Witness ==
    /\ last.op = "createOrder"
    /\ last.error = "InvalidOrder"
    /\ last.symbol = "BTC/USD-PERP"
    /\ last.params = [callbackRate |-> 1]
    /\ last.calls = <<"loadMarkets">>
    /\ Flagged(options)

\* the last call is a fetchOrder or a cancelOrder that built its request
OrderRequestBuilt == last.op \in {"fetchOrder", "cancelOrder"} /\ IsSome(last.request)

\* the client order id the params carry, origClientOrderId first
ClientOrderIdOf(params) == SafeValue2(params, "origClientOrderId", "clientOrderId", Undefined)

\* C28 (as claimed): the request of fetchOrder and of cancelOrder has
\* exactly one of orderId and origClientOrderId: origClientOrderId when
\* the params carry origClientOrderId or clientOrderId, otherwise orderId
\* = id ("7" in every call); type and clientOrderId of the params are not
\* request fields, and origClientOrderId is one only as the identifier.
C28_ExactlyOneIdentifier ==
    OrderRequestBuilt
        => LET request == Val(last.request)
               params == last.params
           IN  /\ Has(request, "orderId") # Has(request, "origClientOrderId")
               /\ IF ClientOrderIdOf(params) # Undefined
                  THEN /\ Has(request, "origClientOrderId")
                       /\ request["origClientOrderId"] = ClientOrderIdOf(params)
                  ELSE /\ Has(request, "orderId")
                       /\ request["orderId"] = "7"
               /\ ~Has(request, "type")
               /\ ~Has(request, "clientOrderId")

\* C28 (amended): the same for params without an orderId key of their own;
\* every key of the params other than type, clientOrderId and
\* origClientOrderId is forwarded, so an orderId in the params is a
\* request field too, next to origClientOrderId or in place of id.
C28_OneIdentifierUnlessForwarded ==
    OrderRequestBuilt
        => LET request == Val(last.request)
               params == last.params
           IN  /\ IF ClientOrderIdOf(params) # Undefined
                  THEN /\ Has(request, "origClientOrderId")
                       /\ request["origClientOrderId"] = ClientOrderIdOf(params)
                       /\ Has(request, "orderId") = Has(params, "orderId")
                  ELSE /\ Has(request, "orderId")
                       /\ ~Has(request, "origClientOrderId")
                       /\ request["orderId"] = IF Has(params, "orderId") THEN params["orderId"] ELSE "7"
               /\ Has(params, "orderId") => request["orderId"] = params["orderId"]
               /\ ~Has(request, "type")
               /\ ~Has(request, "clientOrderId")
               /\ DOMAIN request \ {"symbol", "orderId", "origClientOrderId"}
                     = DOMAIN params \ {"type", "clientOrderId", "origClientOrderId", "orderId"}

C28_Witness ==
    /\ last.op = "cancelOrder"
    /\ last.params = [type |-> "future", clientOrderId |-> "c1", origClientOrderId |-> "o1"]
    /\ last.request = Some([symbol |-> "BNBUSDT", origClientOrderId |-> "o1"])
    /\ last.error = "none"

\* the (possibly re-parsed) response carries the code "200" or "0" and a
\* message, if any, that is no key of the exception table
AffirmativeCode(response) ==
    LET r == ReparsedResponse(response)
    IN  /\ Has(r, "code")
        /\ r["code"] \in {"200", "0"}
        /\ Unmatched(r, "msg")

\* the HTTP status is neither 418 nor 429 and no InvalidOrder phrase
\* applies
NoEarlyRaise == last.code \notin {418, 429} /\ ~(last.code >= 400 /\ InvalidOrderPhrase(last.body))

\* C29 (as claimed): handleErrors returns whenever the (possibly
\* re-parsed) response carries the code "200" or "0" and its message
\* matches no table entry, even with success false; and it returns when
\* there is no parsed response, the status is neither 418 nor 429 and no
\* InvalidOrder phrase applies.
C29_AffirmativeCodeReturnsAlways ==
    last.op = "handleErrors"
        => /\ (IsSome(last.response) /\ AffirmativeCode(Val(last.response))) => last.error = "none"
           /\ (~IsSome(last.response) /\ NoEarlyRaise) => last.error = "none"

\* C29 (amended): both halves hold when the status is neither 418 nor 429
\* and no InvalidOrder phrase applies; with such a status or phrase the
\* call raises before the parsed response is looked at.
C29_AffirmativeCodeReturns ==
    (last.op = "handleErrors" /\ NoEarlyRaise)
        => /\ (IsSome(last.response) /\ AffirmativeCode(Val(last.response))) => last.error = "none"
           /\ ~IsSome(last.response) => last.error = "none"

C29_Witness ==
    /\ last.op = "handleErrors"
    /\ last.code = 400
    /\ last.body = <<>>
    /\ last.response = Some([success |-> FALSE, msg |-> "Invalid quantity.", code |-> "0"])
    /\ exceptions # EmptyObject
    /\ last.error = "none"

\* C30: parseOrder reports postOnly true exactly when the raw order type
\* is LIMIT_MAKER or its timeInForce is GTX, and reports the type 'limit'
\* for a raw LIMIT_MAKER order.
C30_PostOnlyOfLimitMaker ==
    last.op = "parseOrder"
        => LET order == last.order
               limitMaker == Has(order, "type") /\ order["type"] = "LIMIT_MAKER"
               gtx == Has(order, "timeInForce") /\ order["timeInForce"] = "GTX"
           IN  /\ last.result.postOnly = (limitMaker \/ gtx)
               /\ limitMaker => last.result.type = "limit"
====
